---- MODULE Spec2Model ----
(***************************************************************************)
(* Model of the hono-query proxy engine (src/src/index.ts): the query      *)
(* proxy, the method-specific mutation hooks with their invalidation rule, *)
(* the query fetch functions and the transport / store they drive.         *)
(*                                                                         *)
(* JavaScript strings that the code inspects (path segments, property      *)
(* names, method names) are sequences of one-character strings, so that    *)
(* startsWith, toLowerCase, template literals and join are computed.       *)
(***************************************************************************)
EXTENDS Integers, Sequences, FiniteSets, TLC

VARIABLES client, calls, store, path, got, context

vars == <<client, calls, store, path, got, context>>

---------------------------------------------------------------------------
(* Bounds *)

\* number of hook instances (calls) that can be mounted in one behaviour
MaxCalls == 2
\* longest Path a traversal of the query proxy builds
MaxDepth == 4
\* number of pages the store fetches for one paged query
MaxPages == 2

---------------------------------------------------------------------------
(* Strings *)

users == <<"u","s","e","r","s">>
posts == <<"p","o","s","t","s">>
id == <<":","i","d">>
postId == <<":","p","o","s","t","I","d">>

useQueryName == <<"u","s","e","Q","u","e","r","y">>
useInfiniteQueryName == <<"u","s","e","I","n","f","i","n","i","t","e","Q","u","e","r","y">>
useMutationName == <<"u","s","e","M","u","t","a","t","i","o","n">>
post == <<"p","o","s","t">>
put == <<"p","u","t">>
patch == <<"p","a","t","c","h">>
delete == <<"d","e","l","e","t","e">>
get == <<"g","e","t">>

\* ['post', 'put', 'patch', 'delete']
MutatingNames == {post, put, patch, delete}

\* String.prototype.startsWith for a one-character search string
StartsWith(s, c) == Len(s) > 0 /\ s[1] = c

\* String.prototype.toLowerCase on the characters the model uses
LowerChar(c) ==
    CASE c = "Q" -> "q"
      [] c = "I" -> "i"
      [] c = "P" -> "p"
      [] c = "D" -> "d"
      [] OTHER -> c

ToLowerCase(s) == [i \in 1..Len(s) |-> LowerChar(s[i])]

\* the template literal `$${method.toLowerCase()}`
HonoMethod(method) == <<"$">> \o ToLowerCase(method)

\* Array.prototype.join
RECURSIVE Join(_, _)
Join(p, sep) ==
    IF Len(p) = 0 THEN <<>>
    ELSE IF Len(p) = 1 THEN p[1]
    ELSE p[1] \o sep \o Join(Tail(p), sep)

---------------------------------------------------------------------------
(* The transport object (hono client): a tree of handles.  A client is a   *)
(* function from the Paths of its handles to the set of method keys        *)
(* ($get, $post, ...) each handle exposes as callables.                    *)

Obj(node) == [k |-> "object", node |-> node]
Undef == [k |-> "undefined", node |-> <<>>]
Func == [k |-> "function", node |-> <<>>]
Thrown == [k |-> "throw", node |-> <<>>]

\* acc[p] for one step of the reduce
GetProp(c, acc, p) ==
    CASE acc.k = "throw" -> Thrown
      [] acc.k = "undefined" -> Thrown
      [] acc.k = "function" -> Undef
      [] acc.k = "object" ->
            IF Append(acc.node, p) \in DOMAIN c THEN Obj(Append(acc.node, p))
            ELSE IF p \in c[acc.node] THEN Func
            ELSE Undef

RECURSIVE Reduce(_, _, _)
Reduce(c, acc, p) ==
    IF Len(p) = 0 THEN acc
    ELSE Reduce(c, GetProp(c, acc, Head(p)), Tail(p))

\* path.reduce((acc, p) => acc[p], client)
Resolve(c, p) == Reduce(c, Obj(<<>>), p)

\* `key in rpc` for a value that did not throw: TRUE / FALSE, or a TypeError
\* when rpc is undefined
InThrows(rpc) == rpc.k \in {"throw", "undefined"}
In(c, key, rpc) == rpc.k = "object" /\ key \in c[rpc.node]

---------------------------------------------------------------------------
(* Transport objects the model runs against.  An application talks to one  *)
(* API; the environment may change the transport object in place at any   *)
(* time (TransportChanges), after which handles or callables may be gone.  *)

GET == HonoMethod(get)
POST == HonoMethod(post)
PUT == HonoMethod(put)
PATCH == HonoMethod(patch)
DELETE == HonoMethod(delete)

ApiFlat ==
    (<<>> :> {}) @@ (<<users>> :> {GET, POST}) @@ (<<users, id>> :> {GET, PATCH})

ApiFlatAltered ==
    (<<>> :> {}) @@ (<<users>> :> {})

ApiNested ==
    (<<>> :> {}) @@ (<<users>> :> {GET}) @@ (<<users, id>> :> {GET, PUT})
    @@ (<<users, id, posts>> :> {GET})
    @@ (<<users, id, posts, postId>> :> {GET, DELETE})

ApiNestedAltered ==
    (<<>> :> {}) @@ (<<users>> :> {GET}) @@ (<<users, id>> :> {GET})

Apis == {ApiFlat, ApiNested}

Altered(c) ==
    CASE c = ApiFlat -> ApiFlatAltered
      [] c = ApiFlatAltered -> ApiFlat
      [] c = ApiNested -> ApiNestedAltered
      [] c = ApiNestedAltered -> ApiNested

\* the Paths a caller addresses: the routes of the API it was written for
Routes(c) ==
    IF c \in {ApiFlat, ApiFlatAltered} THEN DOMAIN ApiFlat ELSE DOMAIN ApiNested

---------------------------------------------------------------------------
(* The query proxy *)

Result(k, p, m) == [k |-> k, path |-> p, method |-> m]

\* mutant of ProxyGet: a method hook for every mutating name on a resolved handle
ProxyGetNoGate(c, p, property) ==
    IF property = useQueryName THEN Result("useQuery", p, get)
    ELSE IF property = useInfiniteQueryName THEN Result("useInfiniteQuery", p, get)
    ELSE IF property \in MutatingNames THEN
        IF InThrows(Resolve(c, p)) THEN Result("throw", p, <<>>)
        ELSE Result("methodHook", p, property)
    ELSE IF StartsWith(property, "$") THEN Result("undefined", p, <<>>)
    ELSE Result("proxy", Append(p, property), <<>>)

\* mutant of ProxyGet: the hook name taken as a segment of the hook's Path
ProxyGetHookExtends(c, p, property) ==
    IF property = useQueryName THEN Result("useQuery", Append(p, property), get)
    ELSE IF property = useInfiniteQueryName
         THEN Result("useInfiniteQuery", Append(p, property), get)
    ELSE IF property \in MutatingNames THEN
        LET rpc == Resolve(c, p)
            honoMethod == <<"$">> \o property
        IN  IF InThrows(rpc) THEN Result("throw", p, <<>>)
            ELSE IF In(c, honoMethod, rpc)
                 THEN Result("methodHook", Append(p, property), property)
            ELSE Result("undefined", p, <<>>)
    ELSE IF StartsWith(property, "$") THEN Result("undefined", p, <<>>)
    ELSE Result("proxy", Append(p, property), <<>>)

\* mutant of ProxyGet: raw transport methods not blocked
ProxyGetRawExposed(c, p, property) ==
    IF property = useQueryName THEN Result("useQuery", p, get)
    ELSE IF property = useInfiniteQueryName THEN Result("useInfiniteQuery", p, get)
    ELSE IF property \in MutatingNames THEN
        LET rpc == Resolve(c, p)
            honoMethod == <<"$">> \o property
        IN  IF InThrows(rpc) THEN Result("throw", p, <<>>)
            ELSE IF In(c, honoMethod, rpc) THEN Result("methodHook", p, property)
            ELSE Result("undefined", p, <<>>)
    ELSE Result("proxy", Append(p, property), <<>>)

\* mutant of ProxyGet: an unsupported mutating name taken as a Path segment
ProxyGetUnsupportedAppends(c, p, property) ==
    LET rpc == Resolve(c, p)
        honoMethod == <<"$">> \o property
    IN  IF property = useQueryName THEN Result("useQuery", p, get)
        ELSE IF property = useInfiniteQueryName THEN Result("useInfiniteQuery", p, get)
        ELSE IF property \in MutatingNames /\ ~InThrows(rpc) /\ In(c, honoMethod, rpc)
             THEN Result("methodHook", p, property)
        ELSE IF StartsWith(property, "$") THEN Result("undefined", p, <<>>)
        ELSE Result("proxy", Append(p, property), <<>>)

\* proxyHandlers(client, path).get(_target, property)
ProxyGet(c, p, property) ==
    IF property = useQueryName THEN Result("useQuery", p, get)
    ELSE IF property = useInfiniteQueryName THEN Result("useInfiniteQuery", p, get)
    ELSE IF property \in MutatingNames THEN
        LET rpc == Resolve(c, p)
            honoMethod == <<"$">> \o property
        IN  IF InThrows(rpc) THEN Result("throw", p, <<>>)
            ELSE IF In(c, honoMethod, rpc) THEN Result("methodHook", p, property)
            ELSE Result("undefined", p, <<>>)
    ELSE IF StartsWith(property, "$") THEN Result("undefined", p, <<>>)
    ELSE Result("proxy", Append(p, property), <<>>)

\* api[s1][s2]...[sn]: chained access from the root proxy createHonoQueryProxy(client)
RECURSIVE ProxyChain(_, _, _)
ProxyChain(c, r, chain) ==
    IF Len(chain) = 0 \/ r.k # "proxy" THEN r
    ELSE ProxyChain(c, ProxyGet(c, r.path, Head(chain)), Tail(chain))

RootProxy == Result("proxy", <<>>, <<>>)

\* got: the last property access on the proxy held at `path`, with its result
NoAccess == [property |-> <<>>, at |-> <<>>, result |-> Result("none", <<>>, <<>>)]

---------------------------------------------------------------------------
(* Values: inputs, cache keys, responses, errors *)

\* elements of a cache key carry their JavaScript type
Str(x) == [t |-> "string", v |-> x]
Num(n) == [t |-> "number", v |-> n]
Undefined == [t |-> "undefined", v |-> <<>>]
Object(r) == [t |-> "object", v |-> r]

Input1 == Object([param |-> [id |-> "1"]])
Input2 == Object([param |-> [id |-> "2"]])
PagedInput == Object([query |-> [limit |-> Num(10)]])
PagedInput1 == Object([param |-> [id |-> "1"], query |-> [limit |-> Num(10)]])
OwnPageInput == Object([query |-> [limit |-> Num(10), page |-> Num(5)]])

\* a Path as a query key: queryKey: path
PathKey(p) == [i \in 1..Len(p) |-> Str(p[i])]

\* mutant of QueryKey: no element for an input that was not given
QueryKeyOmitUndefined(p, input) ==
    IF input.t = "undefined" THEN PathKey(p) ELSE Append(PathKey(p), input)

\* mutant of QueryKey: the key made of the last segment and the input
QueryKeyLastSegment(p, input) ==
    Append(PathKey(IF Len(p) = 0 THEN p ELSE <<p[Len(p)]>>), input)

\* queryKey: [...path, input] of useQuery
QueryKey(p, input) == Append(PathKey(p), input)

\* queryKey: [...path, input] of useInfiniteQuery
InfiniteQueryKey(p, input) == Append(PathKey(p), input)

NoData == [none |-> TRUE]
NoRes == [ok |-> FALSE, status |-> 0, statusText |-> "", body |-> [parse |-> FALSE, json |-> NoData]]

Response(ok, status, statusText, parse, json) ==
    [ok |-> ok, status |-> status, statusText |-> statusText,
     body |-> [parse |-> parse, json |-> json]]

\* what the transport may answer: body parseable or not, ok or not
Responses ==
    { Response(TRUE, 200, "OK", TRUE, [id |-> "1"]),
      Response(TRUE, 204, "No Content", FALSE, NoData),
      Response(FALSE, 404, "Not Found", TRUE, [message |-> "User not found"]),
      Response(FALSE, 500, "Internal Server Error", FALSE, NoData) }

NoError == [name |-> "none", message |-> <<>>, response |-> NoRes, data |-> NoData]

\* thrown by the JavaScript runtime: reading a property of undefined, `in` on
\* undefined, calling a value that is not a function
TypeError == [name |-> "TypeError", message |-> <<"TypeError">>, response |-> NoRes, data |-> NoData]

\* calling rpc.$get when the handle has no such property
NotAFunctionError ==
    [name |-> "TypeError", message |-> <<"rpc.">> \o <<"$","g","e","t">> \o <<" is not a function">>,
     response |-> NoRes, data |-> NoData]

\* a rejected transport call (network failure)
NetworkError == [name |-> "NetworkError", message |-> <<"fetch failed">>, response |-> NoRes, data |-> NoData]

\* res.json() rejecting on a body that is not JSON
SyntaxError == [name |-> "SyntaxError", message |-> <<"Unexpected end of JSON input">>, response |-> NoRes, data |-> NoData]

\* new Error(`Method ${method} not found for endpoint: ${path.join('.')}`)
MethodNotFoundError(method, p) ==
    [name |-> "Error",
     message |-> <<"Method ">> \o method \o <<" not found for endpoint: ">> \o Join(p, <<".">>),
     response |-> NoRes, data |-> NoData]

\* mutant of HonoQueryError: super(data?.message ?? res.statusText)
HonoQueryErrorNullish(res, data) ==
    [name |-> "HonoQueryError",
     message |-> IF "message" \in DOMAIN data
                 THEN <<data.message>> ELSE <<res.statusText>>,
     response |-> res, data |-> data]

\* new Error('useHonoQueryContext must be used within a HonoQueryProvider')
ContextMissingError ==
    [name |-> "Error",
     message |-> <<"useHonoQueryContext must be used within a HonoQueryProvider">>,
     response |-> NoRes, data |-> NoData]

\* new HonoQueryError(res, data): super(data?.message || res.statusText)
HonoQueryError(res, data) ==
    [name |-> "HonoQueryError",
     message |-> IF "message" \in DOMAIN data /\ data.message # ""
                 THEN <<data.message>> ELSE <<res.statusText>>,
     response |-> res, data |-> data]

---------------------------------------------------------------------------
(* The store (query client).  An entry is a query key with its status.     *)

\* partialMatchKey(entryKey, filterKey) for filter keys made of strings:
\* the filter key is a prefix of the entry's key
PartialMatchKey(k, f) ==
    /\ Len(f) <= Len(k)
    /\ \A i \in 1..Len(f) : k[i].t = f[i].t /\ k[i].v = f[i].v

\* queryClient.invalidateQueries({ queryKey: f })
InvalidateQueries(st, f) ==
    [k \in DOMAIN st |-> IF PartialMatchKey(k, f) THEN "invalidated" ELSE st[k]]

\* the entries earlier useQuery calls left in the store, all fetched
StoreFor(c) ==
    IF c = ApiFlat
    THEN [k \in { QueryKey(<<users>>, Undefined), QueryKey(<<users, id>>, Input1),
                  QueryKey(<<users, id>>, Input2), QueryKey(<<posts>>, Undefined) }
            |-> "fresh"]
    ELSE [k \in { QueryKey(<<users>>, Undefined), QueryKey(<<users, id>>, Input1),
                  QueryKey(<<users, id, posts>>, Input1),
                  QueryKey(<<users, id, posts, postId>>, Input1) }
            |-> "fresh"]

---------------------------------------------------------------------------
(* Calls: one per mounted hook.  trace is the sequence of what the call    *)
(* did to the outside: the transport invocation, the resolution of its     *)
(* mutation function, each invalidation, the caller's onSuccess.           *)

Slots == 1..MaxCalls

NoCall ==
    [kind |-> "none", path |-> <<>>, method |-> <<>>, hasOnSuccess |-> FALSE,
     pc |-> "none", input |-> Undefined, key |-> <<>>, pageParam |-> Undefined,
     res |-> NoRes, data |-> NoData, error |-> NoError, trace |-> <<>>]

\* an endpoint handle as it is at one moment: where it is, what it can be called with
Handle(c, rpc) ==
    [node |-> rpc.node, callables |-> IF rpc.k = "object" THEN c[rpc.node] ELSE {}]
NoHandle == [node |-> <<>>, callables |-> {}]

Event(ev, key, args) == [ev |-> ev, key |-> key, args |-> args, on |-> NoHandle]

TransportEvent(method, input) == Event("transport", <<>>, <<Str(HonoMethod(method)), input>>)

\* rpc[honoMethod](input) on the handle the Path resolves to on c
Invocation(c, p, method, input) ==
    [TransportEvent(method, input) EXCEPT !.on = Handle(c, Resolve(c, p))]
ResolvedEvent == Event("resolved", <<>>, <<>>)
InvalidateEvent(p) == Event("invalidate", PathKey(p), <<>>)
OnSuccessEvent(args) == Event("onSuccess", <<>>, args)

\* the context value the store hands to onSuccess (what onMutate returned)
Context == Str(<<"c","t","x">>)

\* mutant of MutationFnStart: the capability check left out
MutationFnStartNoCheck(c, p, method) ==
    LET rpc == Resolve(c, p)
    IN  IF InThrows(rpc) THEN [k |-> "throw", error |-> TypeError]
        ELSE [k |-> "await", error |-> NoError]

\* mutationFn up to its first await
MutationFnStart(c, p, method) ==
    LET rpc == Resolve(c, p)
        honoMethod == HonoMethod(method)
    IN  IF InThrows(rpc) THEN [k |-> "throw", error |-> TypeError]
        ELSE IF ~In(c, honoMethod, rpc)
             THEN [k |-> "throw", error |-> MethodNotFoundError(method, p)]
        ELSE [k |-> "await", error |-> NoError]

\* mutants of OnSuccessEffects: the resource key forgotten; the last segment
\* always dropped; the resource key issued first; the callback run first;
\* every ancestor invalidated
OnSuccessEffectsCollectionOnly(p, hasOnSuccess, args) ==
    LET lastSegment == IF Len(p) > 0 THEN p[Len(p)] ELSE <<>>
        isResourceMutation == StartsWith(lastSegment, ":")
        collectionPath == IF isResourceMutation THEN SubSeq(p, 1, Len(p) - 1) ELSE p
    IN  <<InvalidateEvent(collectionPath)>>
        \o (IF hasOnSuccess THEN <<OnSuccessEvent(args)>> ELSE <<>>)

OnSuccessEffectsAlwaysParent(p, hasOnSuccess, args) ==
    <<InvalidateEvent(SubSeq(p, 1, Len(p) - 1)), InvalidateEvent(p)>>
    \o (IF hasOnSuccess THEN <<OnSuccessEvent(args)>> ELSE <<>>)

OnSuccessEffectsResourceFirst(p, hasOnSuccess, args) ==
    LET lastSegment == IF Len(p) > 0 THEN p[Len(p)] ELSE <<>>
        isResourceMutation == StartsWith(lastSegment, ":")
        collectionPath == IF isResourceMutation THEN SubSeq(p, 1, Len(p) - 1) ELSE p
    IN  (IF isResourceMutation THEN <<InvalidateEvent(p)>> ELSE <<>>)
        \o <<InvalidateEvent(collectionPath)>>
        \o (IF hasOnSuccess THEN <<OnSuccessEvent(args)>> ELSE <<>>)

OnSuccessEffectsCallbackFirst(p, hasOnSuccess, args) ==
    LET lastSegment == IF Len(p) > 0 THEN p[Len(p)] ELSE <<>>
        isResourceMutation == StartsWith(lastSegment, ":")
        collectionPath == IF isResourceMutation THEN SubSeq(p, 1, Len(p) - 1) ELSE p
    IN  (IF hasOnSuccess THEN <<OnSuccessEvent(args)>> ELSE <<>>)
        \o <<InvalidateEvent(collectionPath)>>
        \o (IF isResourceMutation THEN <<InvalidateEvent(p)>> ELSE <<>>)

OnSuccessEffectsWalkUp(p, hasOnSuccess, args) ==
    [n \in 1..Len(p) |-> InvalidateEvent(SubSeq(p, 1, Len(p) + 1 - n))]
    \o (IF hasOnSuccess THEN <<OnSuccessEvent(args)>> ELSE <<>>)

\* mutant of OnSuccessEffects: the caller's onSuccess given the data only
OnSuccessEffectsDataOnly(p, hasOnSuccess, args) ==
    LET lastSegment == IF Len(p) > 0 THEN p[Len(p)] ELSE <<>>
        isResourceMutation == StartsWith(lastSegment, ":")
        collectionPath == IF isResourceMutation THEN SubSeq(p, 1, Len(p) - 1) ELSE p
    IN  <<InvalidateEvent(collectionPath)>>
        \o (IF isResourceMutation THEN <<InvalidateEvent(p)>> ELSE <<>>)
        \o (IF hasOnSuccess THEN <<OnSuccessEvent(<<args[1]>>)>> ELSE <<>>)

\* mutant of OnSuccessEffects: the keys issued end in the variables
OnSuccessEffectsKeyedByVariables(p, hasOnSuccess, args) ==
    LET lastSegment == IF Len(p) > 0 THEN p[Len(p)] ELSE <<>>
        isResourceMutation == StartsWith(lastSegment, ":")
        collectionPath == IF isResourceMutation THEN SubSeq(p, 1, Len(p) - 1) ELSE p
    IN  <<Event("invalidate", Append(PathKey(collectionPath), args[2]), <<>>)>>
        \o (IF isResourceMutation
            THEN <<Event("invalidate", Append(PathKey(p), args[2]), <<>>)>> ELSE <<>>)
        \o (IF hasOnSuccess THEN <<OnSuccessEvent(args)>> ELSE <<>>)

\* mutant of OnSuccessEffects: the list entry of the collection and the entry
\* of the mutated resource only
OnSuccessEffectsMutatedIdOnly(p, hasOnSuccess, args) ==
    LET lastSegment == IF Len(p) > 0 THEN p[Len(p)] ELSE <<>>
        isResourceMutation == StartsWith(lastSegment, ":")
        collectionPath == IF isResourceMutation THEN SubSeq(p, 1, Len(p) - 1) ELSE p
    IN  <<Event("invalidate", QueryKey(collectionPath, Undefined), <<>>)>>
        \o (IF isResourceMutation
            THEN <<Event("invalidate", QueryKey(p, args[2]), <<>>)>> ELSE <<>>)
        \o (IF hasOnSuccess THEN <<OnSuccessEvent(args)>> ELSE <<>>)

\* mutant of OnSuccessEffects: the second invalidation issued for the Path
\* above the collection
OnSuccessEffectsAboveCollection(p, hasOnSuccess, args) ==
    LET lastSegment == IF Len(p) > 0 THEN p[Len(p)] ELSE <<>>
        isResourceMutation == StartsWith(lastSegment, ":")
        collectionPath == IF isResourceMutation THEN SubSeq(p, 1, Len(p) - 1) ELSE p
    IN  <<InvalidateEvent(collectionPath)>>
        \o (IF isResourceMutation
            THEN <<InvalidateEvent(SubSeq(collectionPath, 1, Len(collectionPath) - 1))>>
            ELSE <<>>)
        \o (IF hasOnSuccess THEN <<OnSuccessEvent(args)>> ELSE <<>>)

\* mutant of OnSuccessEffects: no invalidation issued for an empty key
OnSuccessEffectsSkipEmptyKey(p, hasOnSuccess, args) ==
    LET lastSegment == IF Len(p) > 0 THEN p[Len(p)] ELSE <<>>
        isResourceMutation == StartsWith(lastSegment, ":")
        collectionPath == IF isResourceMutation THEN SubSeq(p, 1, Len(p) - 1) ELSE p
    IN  (IF Len(collectionPath) > 0 THEN <<InvalidateEvent(collectionPath)>> ELSE <<>>)
        \o (IF isResourceMutation THEN <<InvalidateEvent(p)>> ELSE <<>>)
        \o (IF hasOnSuccess THEN <<OnSuccessEvent(args)>> ELSE <<>>)

\* the onSuccess the engine passes to useMutation: what it does, in order
OnSuccessEffects(p, hasOnSuccess, args) ==
    LET lastSegment == IF Len(p) > 0 THEN p[Len(p)] ELSE <<>>
        isResourceMutation == StartsWith(lastSegment, ":")
        collectionPath == IF isResourceMutation THEN SubSeq(p, 1, Len(p) - 1) ELSE p
    IN  <<InvalidateEvent(collectionPath)>>
        \o (IF isResourceMutation THEN <<InvalidateEvent(p)>> ELSE <<>>)
        \o (IF hasOnSuccess THEN <<OnSuccessEvent(args)>> ELSE <<>>)

\* the store after the invalidations among the effects, applied in order
RECURSIVE ApplyEffects(_, _)
ApplyEffects(st, effects) ==
    IF Len(effects) = 0 THEN st
    ELSE ApplyEffects(
            IF Head(effects).ev = "invalidate"
            THEN InvalidateQueries(st, Head(effects).key) ELSE st,
            Tail(effects))

Fail(call, error) == [call EXCEPT !.pc = "failure", !.error = error]

\* the store records the outcome of a fetch function in the query's entry; the
\* outcome of a mutation function is kept by the mutation itself
Settle(st, call, status) ==
    IF call.kind = "mutation" THEN st
    ELSE [st EXCEPT ![call.key] = status]

---------------------------------------------------------------------------
(* Actions of the mutation engine *)

\* mutant of UseMutation: the mutation registered without reading the context
UseMutationNoContextCheck(i, chain, property, hasOnSuccess) ==
    /\ calls[i].kind = "none"
    /\ \A j \in 1..(i - 1) : calls[j].kind # "none"
    /\ LET pr == ProxyChain(client, RootProxy, chain)
           h == ProxyGet(client, pr.path, property)
       IN  /\ pr.k = "proxy"
           /\ h.k = "methodHook"
           /\ calls' = [calls EXCEPT ![i] =
                  [NoCall EXCEPT !.kind = "mutation", !.path = h.path,
                                 !.method = h.method, !.hasOnSuccess = hasOnSuccess,
                                 !.pc = "idle"]]
    /\ UNCHANGED <<client, store, path, got, context>>

\* what a hook invocation that threw leaves with the component: the error
HookThrew(h, error) ==
    [property |-> useMutationName, at |-> h.path,
     result |-> Result("throw", h.path, h.method), error |-> error]

\* api[...chain][property].useMutation(options): useHonoQueryContext() first,
\* then useMutation({...}) registers the mutation with the store
UseMutation(i, chain, property, hasOnSuccess) ==
    /\ calls[i].kind = "none"
    /\ \A j \in 1..(i - 1) : calls[j].kind # "none"
    /\ LET pr == ProxyChain(client, RootProxy, chain)
           h == ProxyGet(client, pr.path, property)
       IN  /\ pr.k = "proxy"
           /\ h.k = "methodHook"
           /\ IF context
              THEN /\ calls' = [calls EXCEPT ![i] =
                         [NoCall EXCEPT !.kind = "mutation", !.path = h.path,
                                        !.method = h.method, !.hasOnSuccess = hasOnSuccess,
                                        !.pc = "idle"]]
                   /\ got' = got
              ELSE /\ calls' = calls
                   /\ got' = HookThrew(h, ContextMissingError)
    /\ UNCHANGED <<client, store, path, context>>

\* mutant of Mutate: a failed mutation dispatched again in place
MutateAgain(i, variables) ==
    /\ calls[i].kind = "mutation"
    /\ calls[i].pc \in {"idle", "failure"}
    /\ Len(calls[i].trace) < 2
    /\ LET r == MutationFnStart(client, calls[i].path, calls[i].method)
           c == [calls[i] EXCEPT !.input = variables, !.error = NoError]
       IN  calls' = [calls EXCEPT ![i] =
              IF r.k = "throw" THEN Fail(c, r.error)
              ELSE [c EXCEPT !.pc = "awaitRes",
                             !.trace = Append(@, Invocation(client, c.path, c.method, variables))]]
    /\ UNCHANGED <<client, store, path, got, context>>

\* mutation.mutate(variables): the store runs mutationFn
Mutate(i, variables) ==
    /\ calls[i].kind = "mutation"
    /\ calls[i].pc = "idle"
    /\ LET r == MutationFnStart(client, calls[i].path, calls[i].method)
           c == [calls[i] EXCEPT !.input = variables]
       IN  calls' = [calls EXCEPT ![i] =
              IF r.k = "throw" THEN Fail(c, r.error)
              ELSE [c EXCEPT !.pc = "awaitRes",
                             !.trace = Append(@, Invocation(client, c.path, c.method, variables))]]
    /\ UNCHANGED <<client, store, path, got, context>>

\* the transport call settles with a response: if (!res.ok) res.json() ... else res.json()
TransportResolves(i, res) ==
    /\ calls[i].kind # "none"
    /\ calls[i].pc = "awaitRes"
    /\ calls' = [calls EXCEPT ![i] =
          [@ EXCEPT !.res = res, !.pc = IF res.ok THEN "awaitJson" ELSE "awaitErrJson"]]
    /\ UNCHANGED <<client, store, path, got, context>>

\* mutant of TransportRejects: the call made once more after a rejection
TransportRejectsRetry(i) ==
    /\ calls[i].kind # "none"
    /\ calls[i].pc = "awaitRes"
    /\ LET again == Len(calls[i].trace) < 2
       IN  /\ calls' = [calls EXCEPT ![i] =
                  IF again
                  THEN [@ EXCEPT !.trace = Append(@, Invocation(client, calls[i].path,
                                                     calls[i].method, calls[i].input))]
                  ELSE Fail(@, NetworkError)]
           /\ store' = IF again THEN store ELSE Settle(store, calls[i], "error")
    /\ UNCHANGED <<client, path, got, context>>

\* the transport call rejects
TransportRejects(i) ==
    /\ calls[i].kind # "none"
    /\ calls[i].pc = "awaitRes"
    /\ calls' = [calls EXCEPT ![i] = Fail(@, NetworkError)]
    /\ store' = Settle(store, calls[i], "error")
    /\ UNCHANGED <<client, path, got, context>>

\* mutant of ErrorBodySettles: no catch on the body of the error response
ErrorBodySettlesNoCatch(i) ==
    /\ calls[i].kind # "none"
    /\ calls[i].pc = "awaitErrJson"
    /\ LET res == calls[i].res
       IN  calls' = [calls EXCEPT ![i] =
              Fail(@, IF res.body.parse THEN HonoQueryError(res, res.body.json)
                      ELSE SyntaxError)]
    /\ store' = Settle(store, calls[i], "error")
    /\ UNCHANGED <<client, path, got, context>>

\* mutant of ErrorBodySettles: the error payload returned instead of thrown
ErrorBodySettlesNoThrow(i) ==
    /\ calls[i].kind # "none"
    /\ calls[i].pc = "awaitErrJson"
    /\ LET res == calls[i].res
           errorData == IF res.body.parse THEN res.body.json
                        ELSE [message |-> res.statusText]
       IN  calls' = [calls EXCEPT ![i] =
              [@ EXCEPT !.pc = IF calls[i].kind = "mutation" THEN "resolved" ELSE "success",
                        !.data = errorData, !.trace = Append(@, ResolvedEvent)]]
    /\ store' = Settle(store, calls[i], "fresh")
    /\ UNCHANGED <<client, path, got, context>>

\* res.json().catch(() => ({ message: res.statusText })) settles; throw HonoQueryError
ErrorBodySettles(i) ==
    /\ calls[i].kind # "none"
    /\ calls[i].pc = "awaitErrJson"
    /\ LET res == calls[i].res
           errorData == IF res.body.parse THEN res.body.json
                        ELSE [message |-> res.statusText]
       IN  calls' = [calls EXCEPT ![i] = Fail(@, HonoQueryError(res, errorData))]
    /\ store' = Settle(store, calls[i], "error")
    /\ UNCHANGED <<client, path, got, context>>

\* mutant of BodySettles: res.json() never settles on a body that is not JSON
BodySettlesHangs(i) ==
    /\ calls[i].kind # "none"
    /\ calls[i].pc = "awaitJson"
    /\ calls[i].res.body.parse
    /\ calls' = [calls EXCEPT ![i] =
          [@ EXCEPT !.pc = IF calls[i].kind = "mutation" THEN "resolved" ELSE "success",
                    !.data = calls[i].res.body.json,
                    !.trace = Append(@, ResolvedEvent)]]
    /\ store' = Settle(store, calls[i], "fresh")
    /\ UNCHANGED <<client, path, got, context>>

\* return res.json() settles
BodySettles(i) ==
    /\ calls[i].kind # "none"
    /\ calls[i].pc = "awaitJson"
    /\ LET res == calls[i].res
       IN  /\ calls' = [calls EXCEPT ![i] =
                  IF res.body.parse
                  THEN [@ EXCEPT !.pc = IF calls[i].kind = "mutation" THEN "resolved" ELSE "success",
                                 !.data = res.body.json,
                                 !.trace = Append(@, ResolvedEvent)]
                  ELSE Fail(@, SyntaxError)]
           /\ store' = Settle(store, calls[i], IF res.body.parse THEN "fresh" ELSE "error")
    /\ UNCHANGED <<client, path, got, context>>

\* mutant of OnSuccess: the first invalidation awaited before the rest runs
OnSuccessSuspends(i) ==
    /\ calls[i].kind = "mutation"
    /\ calls[i].pc = "resolved"
    /\ LET effects == OnSuccessEffects(calls[i].path, calls[i].hasOnSuccess,
                                       <<Object(calls[i].data), calls[i].input, Context>>)
           first == Len(SelectSeq(calls[i].trace, LAMBDA e : e.ev = "invalidate")) = 0
           now == IF first THEN <<Head(effects)>> ELSE Tail(effects)
       IN  /\ store' = ApplyEffects(store, now)
           /\ calls' = [calls EXCEPT ![i] =
                  [@ EXCEPT !.pc = IF first THEN "resolved" ELSE "success",
                            !.trace = @ \o now]]
    /\ UNCHANGED <<client, path, got, context>>

\* the store calls the engine's onSuccess(data, variables, context)
OnSuccess(i) ==
    /\ calls[i].kind = "mutation"
    /\ calls[i].pc = "resolved"
    /\ LET effects == OnSuccessEffects(calls[i].path, calls[i].hasOnSuccess,
                                       <<Object(calls[i].data), calls[i].input, Context>>)
       IN  /\ store' = ApplyEffects(store, effects)
           /\ calls' = [calls EXCEPT ![i] =
                  [@ EXCEPT !.pc = "success", !.trace = @ \o effects]]
    /\ UNCHANGED <<client, path, got, context>>

\* the transport object changes in place
TransportChanges ==
    /\ client' = Altered(client)
    /\ UNCHANGED <<calls, store, path, got, context>>

Init ==
    /\ client \in Apis
    /\ calls = [i \in Slots |-> NoCall]
    /\ store = StoreFor(client)
    /\ path = <<>>
    /\ got = NoAccess
    /\ context = TRUE

Next ==
    \/ \E i \in Slots, chain \in Routes(client), property \in MutatingNames,
          hasOnSuccess \in BOOLEAN : UseMutation(i, chain, property, hasOnSuccess)
    \/ \E i \in Slots : Mutate(i, Input1)
    \/ \E i \in Slots, res \in Responses : TransportResolves(i, res)
    \/ \E i \in Slots : TransportRejects(i)
    \/ \E i \in Slots : ErrorBodySettles(i)
    \/ \E i \in Slots : BodySettles(i)
    \/ \E i \in Slots : OnSuccess(i)
    \/ TransportChanges

Spec == Init /\ [][Next]_vars

---------------------------------------------------------------------------
(* Traversal of the query proxy, one property access at a time.  path is   *)
(* the Path of the proxy the caller holds, got the result of its last      *)
(* access.                                                                 *)

\* the names a caller may access
Properties ==
    {users, id, posts, postId, get, useQueryName, useInfiniteQueryName}
    \cup MutatingNames \cup {GET, POST, DELETE}

AllClients == {ApiFlat, ApiFlatAltered, ApiNested, ApiNestedAltered}

\* mutant of Access: path.push(property) on the array the parent proxy holds
AccessPushes(property) ==
    /\ LET r == ProxyGet(client, path, property)
       IN  /\ r.k = "proxy" => Len(r.path) <= MaxDepth
           /\ got' = [property |-> property, at |-> IF r.k = "proxy" THEN r.path ELSE path,
                      result |-> r]
           /\ path' = IF r.k = "proxy" THEN r.path ELSE path
    /\ UNCHANGED <<client, calls, store, context>>

\* proxy[property] on the proxy held; a proxy result becomes the proxy held
Access(property) ==
    /\ LET r == ProxyGet(client, path, property)
       IN  /\ r.k = "proxy" => Len(r.path) <= MaxDepth
           /\ got' = [property |-> property, at |-> path, result |-> r]
           /\ path' = IF r.k = "proxy" THEN r.path ELSE path
    /\ UNCHANGED <<client, calls, store, context>>

\* the caller starts again from the root proxy: createHonoQueryProxy(client)
Restart ==
    /\ path' = <<>>
    /\ got' = NoAccess
    /\ UNCHANGED <<client, calls, store, context>>

InitProxy ==
    /\ client \in AllClients
    /\ calls = [i \in Slots |-> NoCall]
    /\ store = StoreFor(client)
    /\ path = <<>>
    /\ got = NoAccess
    /\ context = TRUE

NextProxy ==
    \/ \E property \in Properties : Access(property)
    \/ Restart

SpecProxy == InitProxy /\ [][NextProxy]_vars

---------------------------------------------------------------------------
(* The utils proxy, one property access at a time; path is the Path of the *)
(* utils proxy held, got the last access, with the store calls made        *)
(* through what it returned.                                               *)

invalidate == <<"i","n","v","a","l","i","d","a","t","e">>

\* mutant of UtilsGet: the names the query proxy keeps out of a Path are not appended
UtilsGetFiltered(p, property) ==
    IF property = invalidate THEN Result("invalidate", p, <<>>)
    ELSE IF property \in {useQueryName, useInfiniteQueryName} \cup MutatingNames
            \/ StartsWith(property, "$")
         THEN Result("undefined", p, <<>>)
    ELSE Result("proxy", Append(p, property), <<>>)

\* the get trap of createUtilsProxy(queryClient, path)
UtilsGet(p, property) ==
    IF property = invalidate THEN Result("invalidate", p, <<>>)
    ELSE Result("proxy", Append(p, property), <<>>)

\* the names a caller may access on the utils proxy
UtilsProperties == {users, id, posts, useQueryName, post, GET, invalidate}

NoUtilsAccess == [property |-> <<>>, at |-> <<>>, result |-> Result("none", <<>>, <<>>),
                  issued |-> <<>>]

\* utils[property] on the utils proxy held
UtilsAccess(property) ==
    /\ LET r == UtilsGet(path, property)
       IN  /\ r.k = "proxy" => Len(r.path) <= MaxDepth
           /\ got' = [property |-> property, at |-> path, result |-> r, issued |-> <<>>]
           /\ path' = IF r.k = "proxy" THEN r.path ELSE path
    /\ UNCHANGED <<client, calls, store, context>>

\* mutant of CallInvalidate: the parent of the Path invalidated as well
CallInvalidateWithParent ==
    /\ got.result.k = "invalidate"
    /\ got.issued = <<>>
    /\ LET p == got.result.path
           effects == <<InvalidateEvent(SubSeq(p, 1, Len(p) - 1)), InvalidateEvent(p)>>
       IN  /\ got' = [got EXCEPT !.issued = effects]
           /\ store' = ApplyEffects(store, effects)
    /\ UNCHANGED <<client, calls, path, context>>

\* the function `invalidate` returned is called: queryClient.invalidateQueries({ queryKey: path })
CallInvalidate ==
    /\ got.result.k = "invalidate"
    /\ got.issued = <<>>
    /\ LET effects == <<InvalidateEvent(got.result.path)>>
       IN  /\ got' = [got EXCEPT !.issued = effects]
           /\ store' = ApplyEffects(store, effects)
    /\ UNCHANGED <<client, calls, path, context>>

\* the caller starts again from the root: createUtilsProxy(queryClient)
UtilsRestart ==
    /\ path' = <<>>
    /\ got' = NoUtilsAccess
    /\ UNCHANGED <<client, calls, store, context>>

InitUtils ==
    /\ client \in Apis
    /\ calls = [i \in Slots |-> NoCall]
    /\ store = StoreFor(client)
    /\ path = <<>>
    /\ got = NoUtilsAccess
    /\ context = TRUE

NextUtils ==
    \/ \E property \in UtilsProperties : UtilsAccess(property)
    \/ CallInvalidate
    \/ UtilsRestart

SpecUtils == InitUtils /\ [][NextUtils]_vars

---------------------------------------------------------------------------
(* Queries.  useQuery / useInfiniteQuery register the key with the store;  *)
(* the store then runs the fetch function.                                 *)

\* the query call sites of the application written for an API
QuerySites(c) ==
    IF c \in {ApiFlat, ApiFlatAltered}
    THEN { [kind |-> "query", chain |-> <<users>>, input |-> Undefined],
           [kind |-> "query", chain |-> <<users, id>>, input |-> Input1],
           [kind |-> "infinite", chain |-> <<users>>, input |-> PagedInput] }
    ELSE { [kind |-> "query", chain |-> <<users, id>>, input |-> Input1],
           [kind |-> "query", chain |-> <<users, id, posts, postId>>, input |-> Input1],
           [kind |-> "infinite", chain |-> <<users, id, posts>>, input |-> PagedInput1] }

\* the page cursor the store passes for the first page
PageParams == {Undefined}

\* the cursors getNextPageParam returns: lastPage.nextCursor
Cursors == {Str(<<"c", "2">>)}

\* mutant of QueryFnStart: the call attempted whatever the resolution gave
QueryFnStartUnguarded(c, p) ==
    LET rpc == Resolve(c, p)
    IN  IF ~InThrows(rpc) /\ ~In(c, GET, rpc)
        THEN [k |-> "throw", error |-> NotAFunctionError]
        ELSE [k |-> "await", error |-> NoError]

\* queryFn of useQuery up to its first await: rpc.$get(input)
QueryFnStart(c, p) ==
    LET rpc == Resolve(c, p)
    IN  IF InThrows(rpc) THEN [k |-> "throw", error |-> TypeError]
        ELSE IF ~In(c, GET, rpc) THEN [k |-> "throw", error |-> NotAFunctionError]
        ELSE [k |-> "await", error |-> NoError]

\* mutant of FinalInput: a first page number put in place of an absent cursor
FinalInputDefaultPage(input, pageParam) ==
    LET spread == IF input.t = "object" THEN input.v ELSE <<>>
        query == IF input.t = "object" /\ "query" \in DOMAIN input.v
                 THEN input.v.query ELSE <<>>
        newQuery == [g \in DOMAIN query \cup {"page"} |->
                        IF g # "page" THEN query[g]
                        ELSE IF pageParam.t = "undefined" THEN Num(1) ELSE pageParam]
    IN  Object([f \in DOMAIN spread \cup {"query"} |->
                   IF f = "query" THEN newQuery ELSE spread[f]])

\* mutant of FinalInput: the query sub-object replaced instead of extended
FinalInputQueryReplaced(input, pageParam) ==
    LET spread == IF input.t = "object" THEN input.v ELSE <<>>
    IN  Object([f \in DOMAIN spread \cup {"query"} |->
                   IF f = "query" THEN [page |-> pageParam] ELSE spread[f]])

\* { ...input, query: { ...(input?.query ?? {}), page: pageParam } }
FinalInput(input, pageParam) ==
    LET spread == IF input.t = "object" THEN input.v ELSE <<>>
        query == IF input.t = "object" /\ "query" \in DOMAIN input.v
                 THEN input.v.query ELSE <<>>
        newQuery == [g \in DOMAIN query \cup {"page"} |->
                        IF g = "page" THEN pageParam ELSE query[g]]
    IN  Object([f \in DOMAIN spread \cup {"query"} |->
                   IF f = "query" THEN newQuery ELSE spread[f]])

InFlight(call) == call.pc \in {"awaitRes", "awaitJson", "awaitErrJson"}

\* api[...chain].useQuery(input) / api[...chain].useInfiniteQuery(input, options)
UseQueryHook(i, site) ==
    /\ calls[i].kind = "none"
    /\ \A j \in 1..(i - 1) : calls[j].kind # "none"
    /\ LET pr == ProxyChain(client, RootProxy, site.chain)
           h == ProxyGet(client, pr.path,
                         IF site.kind = "query" THEN useQueryName ELSE useInfiniteQueryName)
           key == IF site.kind = "query" THEN QueryKey(h.path, site.input)
                  ELSE InfiniteQueryKey(h.path, site.input)
       IN  /\ pr.k = "proxy"
           /\ h.k = IF site.kind = "query" THEN "useQuery" ELSE "useInfiniteQuery"
           /\ calls' = [calls EXCEPT ![i] =
                  [NoCall EXCEPT !.kind = site.kind, !.path = h.path, !.method = h.method,
                                 !.input = site.input, !.key = key, !.pc = "mounted"]]
           /\ store' = IF key \in DOMAIN store THEN store ELSE (key :> "pending") @@ store
    /\ UNCHANGED <<client, path, got, context>>

\* mutant of QueryFnRuns: the page written into the caller's input object
QueryFnRunsWritesInput(i, pageParam) ==
    /\ calls[i].kind \in {"query", "infinite"}
    /\ calls[i].pc = "mounted"
    /\ store[calls[i].key] # "fresh"
    /\ \A j \in Slots : (j # i /\ InFlight(calls[j])) => calls[j].key # calls[i].key
    /\ LET r == QueryFnStart(client, calls[i].path)
           sent == IF calls[i].kind = "query" THEN calls[i].input
                   ELSE FinalInput(calls[i].input, pageParam)
           c == IF calls[i].kind = "query" THEN calls[i]
                ELSE [calls[i] EXCEPT !.pageParam = pageParam, !.input = sent]
       IN  /\ calls' = [calls EXCEPT ![i] =
                  IF r.k = "throw" THEN Fail(c, r.error)
                  ELSE [c EXCEPT !.pc = "awaitRes",
                                 !.trace = Append(@, Invocation(client, c.path, get, sent))]]
           /\ store' = IF r.k = "throw" THEN Settle(store, calls[i], "error") ELSE store
    /\ UNCHANGED <<client, path, got, context>>

\* the store runs the fetch function of a mounted query (one fetch per key at a time)
QueryFnRuns(i, pageParam) ==
    /\ calls[i].kind \in {"query", "infinite"}
    /\ calls[i].pc = "mounted"
    /\ store[calls[i].key] # "fresh"
    /\ \A j \in Slots : (j # i /\ InFlight(calls[j])) => calls[j].key # calls[i].key
    /\ LET r == QueryFnStart(client, calls[i].path)
           sent == IF calls[i].kind = "query" THEN calls[i].input
                   ELSE FinalInput(calls[i].input, pageParam)
           c == IF calls[i].kind = "query" THEN calls[i]
                ELSE [calls[i] EXCEPT !.pageParam = pageParam]
       IN  /\ calls' = [calls EXCEPT ![i] =
                  IF r.k = "throw" THEN Fail(c, r.error)
                  ELSE [c EXCEPT !.pc = "awaitRes",
                                 !.trace = Append(@, Invocation(client, c.path, get, sent))]]
           /\ store' = IF r.k = "throw" THEN Settle(store, calls[i], "error") ELSE store
    /\ UNCHANGED <<client, path, got, context>>

\* the pages a paged query has fetched
Pages(call) == Len(SelectSeq(call.trace, LAMBDA e : e.ev = "resolved"))

\* mutant of FetchNextPage: the handle of the first page kept for the next pages
FetchNextPageCaptured(i, pageParam) ==
    /\ calls[i].kind = "infinite"
    /\ calls[i].pc = "success"
    /\ Pages(calls[i]) < MaxPages
    /\ \A j \in Slots : (j # i /\ InFlight(calls[j])) => calls[j].key # calls[i].key
    /\ LET c == [calls[i] EXCEPT !.pageParam = pageParam]
           first == c.trace[1]
       IN  calls' = [calls EXCEPT ![i] =
              [c EXCEPT !.pc = "awaitRes",
                        !.trace = Append(@, [TransportEvent(get, FinalInput(c.input, pageParam))
                                                EXCEPT !.on = first.on])]]
    /\ UNCHANGED <<client, store, path, got, context>>

\* mutant of FetchNextPage: the page fetched under a key extended by the cursor
FetchNextPageRekeys(i, pageParam) ==
    /\ calls[i].kind = "infinite"
    /\ calls[i].pc = "success"
    /\ Pages(calls[i]) < MaxPages
    /\ LET r == QueryFnStart(client, calls[i].path)
           c == [calls[i] EXCEPT !.pageParam = pageParam, !.key = Append(@, pageParam)]
       IN  /\ calls' = [calls EXCEPT ![i] =
                  IF r.k = "throw" THEN Fail(c, r.error)
                  ELSE [c EXCEPT !.pc = "awaitRes",
                                 !.trace = Append(@, Invocation(client, c.path, get,
                                              FinalInput(c.input, pageParam)))]]
           /\ store' = (c.key :> (IF r.k = "throw" THEN "error" ELSE "pending")) @@ store
    /\ UNCHANGED <<client, path, got, context>>

\* fetchNextPage(): the store runs the fetch function of a paged query again, with
\* the cursor getNextPageParam returned for the last page
FetchNextPage(i, pageParam) ==
    /\ calls[i].kind = "infinite"
    /\ calls[i].pc = "success"
    /\ Pages(calls[i]) < MaxPages
    /\ \A j \in Slots : (j # i /\ InFlight(calls[j])) => calls[j].key # calls[i].key
    /\ LET r == QueryFnStart(client, calls[i].path)
           c == [calls[i] EXCEPT !.pageParam = pageParam]
       IN  /\ calls' = [calls EXCEPT ![i] =
                  IF r.k = "throw" THEN Fail(c, r.error)
                  ELSE [c EXCEPT !.pc = "awaitRes",
                                 !.trace = Append(@, Invocation(client, c.path, get,
                                              FinalInput(c.input, pageParam)))]]
           /\ store' = IF r.k = "throw" THEN Settle(store, calls[i], "error") ELSE store
    /\ UNCHANGED <<client, path, got, context>>

InitQuery ==
    /\ client \in Apis
    /\ calls = [i \in Slots |-> NoCall]
    /\ store = <<>>
    /\ path = <<>>
    /\ got = NoAccess
    /\ context = TRUE

NextQuery ==
    \/ \E i \in Slots, site \in QuerySites(client) : UseQueryHook(i, site)
    \/ \E i \in Slots, pageParam \in PageParams : QueryFnRuns(i, pageParam)
    \/ \E i \in Slots, pageParam \in Cursors : FetchNextPage(i, pageParam)
    \/ \E i \in Slots, res \in Responses : TransportResolves(i, res)
    \/ \E i \in Slots : TransportRejects(i)
    \/ \E i \in Slots : ErrorBodySettles(i)
    \/ \E i \in Slots : BodySettles(i)
    \/ TransportChanges

SpecQuery == InitQuery /\ [][NextQuery]_vars

---------------------------------------------------------------------------
(* Hooks mounted at any Path with any input: the keys they register and    *)
(* what their first fetch sends.                                           *)

KeyChains == {<<>>, <<users>>, <<users, id>>}
KeyInputs == {Undefined, Input1, Input2, PagedInput, OwnPageInput}

\* api[...chain].useQuery(input) / api[...chain].useInfiniteQuery(input, options)
KeySites == [kind : {"query", "infinite"}, chain : KeyChains, input : KeyInputs]

NextKeys ==
    \/ \E i \in Slots, site \in KeySites : UseQueryHook(i, site)
    \/ \E i \in Slots, pageParam \in PageParams : QueryFnRuns(i, pageParam)

SpecKeys == InitQuery /\ [][NextKeys]_vars

---------------------------------------------------------------------------
(* An application with both kinds of hooks: its odd slots hold query hooks, *)
(* its even slots mutation hooks with an onSuccess of their own.  The store *)
(* starts empty and holds what the query hooks register.                    *)

QuerySlots == {i \in Slots : i % 2 = 1}
MutationSlots == {i \in Slots : i % 2 = 0}

InitApp ==
    /\ client \in Apis
    /\ calls = [i \in Slots |-> NoCall]
    /\ store = <<>>
    /\ path = <<>>
    /\ got = NoAccess
    /\ context = TRUE

NextApp ==
    \/ \E i \in QuerySlots, site \in QuerySites(client) : UseQueryHook(i, site)
    \/ \E i \in MutationSlots, chain \in Routes(client), property \in MutatingNames :
          UseMutation(i, chain, property, TRUE)
    \/ \E i \in Slots, pageParam \in PageParams : QueryFnRuns(i, pageParam)
    \/ \E i \in Slots, pageParam \in Cursors : FetchNextPage(i, pageParam)
    \/ \E i \in Slots : Mutate(i, Input1)
    \/ \E i \in Slots, res \in Responses : TransportResolves(i, res)
    \/ \E i \in Slots : TransportRejects(i)
    \/ \E i \in Slots : ErrorBodySettles(i)
    \/ \E i \in Slots : BodySettles(i)
    \/ \E i \in Slots : OnSuccess(i)
    \/ TransportChanges

SpecApp == InitApp /\ [][NextApp]_vars

\* the transport answers every call it was given (with a response or a
\* rejection), every body read settles, and the store runs the onSuccess of a
\* mutation whose mutation function has resolved
FairApp ==
    \A i \in Slots :
        /\ WF_vars((\E res \in Responses : TransportResolves(i, res)) \/ TransportRejects(i))
        /\ WF_vars(ErrorBodySettles(i) \/ BodySettles(i))
        /\ WF_vars(OnSuccess(i))

\* the application on the flat API, the transport left as it is, every query
\* fetched once
InitFair == InitApp /\ client = ApiFlat

NextFair ==
    \/ \E i \in QuerySlots, site \in QuerySites(client) : UseQueryHook(i, site)
    \/ \E i \in MutationSlots, chain \in Routes(client), property \in MutatingNames :
          UseMutation(i, chain, property, TRUE)
    \/ \E i \in Slots, pageParam \in PageParams : QueryFnRuns(i, pageParam)
    \/ \E i \in Slots : Mutate(i, Input1)
    \/ \E i \in Slots, res \in Responses : TransportResolves(i, res)
    \/ \E i \in Slots : TransportRejects(i)
    \/ \E i \in Slots : ErrorBodySettles(i)
    \/ \E i \in Slots : BodySettles(i)
    \/ \E i \in Slots : OnSuccess(i)

SpecAppFair == InitFair /\ [][NextFair]_vars /\ FairApp

---------------------------------------------------------------------------
(* The application against a server whose error responses vary: a payload  *)
(* with a message, with an empty message, without one, the payload null,   *)
(* a body that is not JSON, and an empty status text (HTTP/2).             *)

\* the JSON value null as a payload: data?.message is undefined
Null == [null |-> TRUE]

ErrorResponses ==
    { Response(FALSE, 404, "Not Found", TRUE, [message |-> "User not found"]),
      Response(FALSE, 404, "", TRUE, [message |-> "User not found"]),
      Response(FALSE, 400, "Bad Request", TRUE, [message |-> ""]),
      Response(FALSE, 422, "Unprocessable Entity", TRUE, [error |-> "invalid"]),
      Response(FALSE, 503, "", TRUE, Null),
      Response(FALSE, 500, "Internal Server Error", FALSE, NoData) }

NextErrors ==
    \/ \E i \in QuerySlots, site \in QuerySites(client) : UseQueryHook(i, site)
    \/ \E i \in MutationSlots, chain \in Routes(client), property \in MutatingNames :
          UseMutation(i, chain, property, TRUE)
    \/ \E i \in Slots, pageParam \in PageParams : QueryFnRuns(i, pageParam)
    \/ \E i \in Slots : Mutate(i, Input1)
    \/ \E i \in Slots, res \in Responses \cup ErrorResponses : TransportResolves(i, res)
    \/ \E i \in Slots : ErrorBodySettles(i)
    \/ \E i \in Slots : BodySettles(i)
    \/ \E i \in Slots : OnSuccess(i)

SpecErrors == InitApp /\ [][NextErrors]_vars

---------------------------------------------------------------------------
(* Components rendered before the provider is mounted around them: the     *)
(* context starts undefined, and HonoQueryProvider supplies it.            *)

\* <HonoQueryProvider queryClient={queryClient}> renders its children
ProviderMounts ==
    /\ ~context
    /\ context' = TRUE
    /\ UNCHANGED <<client, calls, store, path, got>>

InitProvider ==
    /\ client \in Apis
    /\ calls = [i \in Slots |-> NoCall]
    /\ store = StoreFor(client)
    /\ path = <<>>
    /\ got = NoAccess
    /\ context = FALSE

NextProvider ==
    \/ ProviderMounts
    \/ \E i \in Slots, chain \in Routes(client), property \in MutatingNames :
          UseMutation(i, chain, property, TRUE)
    \/ \E i \in Slots : Mutate(i, Input1)
    \/ \E i \in Slots, res \in Responses : TransportResolves(i, res)
    \/ \E i \in Slots : TransportRejects(i)
    \/ \E i \in Slots : ErrorBodySettles(i)
    \/ \E i \in Slots : BodySettles(i)
    \/ \E i \in Slots : OnSuccess(i)

SpecProvider == InitProvider /\ [][NextProvider]_vars

---------------------------------------------------------------------------
(* Mutations over a store that earlier hooks have filled: every route that *)
(* can be fetched was queried with no input and for two ids.  ApiParam has *)
(* a callable at its root and a route that is a single parameter segment.  *)

ApiParam ==
    (<<>> :> {POST}) @@ (<<id>> :> {GET, PATCH}) @@ (<<users>> :> {GET, POST})

CacheApis == {ApiFlat, ApiNested, ApiParam}

CacheInputs == {Undefined, Input1, Input2}

\* the keys useQuery / useInfiniteQuery registered at the routes of c
CacheKeys(c) ==
    {QueryKey(p, input) : p \in {q \in DOMAIN c : GET \in c[q]}, input \in CacheInputs}
    \cup {InfiniteQueryKey(<<users>>, PagedInput)}

InitCache ==
    /\ client \in CacheApis
    /\ calls = [i \in Slots |-> NoCall]
    /\ store = [k \in CacheKeys(client) |-> "fresh"]
    /\ path = <<>>
    /\ got = NoAccess
    /\ context = TRUE

NextCache ==
    \/ \E i \in Slots, chain \in DOMAIN client, property \in MutatingNames :
          UseMutation(i, chain, property, TRUE)
    \/ \E i \in Slots : Mutate(i, Input1)
    \/ \E i \in Slots, res \in Responses : TransportResolves(i, res)
    \/ \E i \in Slots : TransportRejects(i)
    \/ \E i \in Slots : ErrorBodySettles(i)
    \/ \E i \in Slots : BodySettles(i)
    \/ \E i \in Slots : OnSuccess(i)

SpecCache == InitCache /\ [][NextCache]_vars

---------------------------------------------------------------------------
(* Hooks mounted at Paths that share segments (one the extension of the    *)
(* other, two with the same segments in another order, one repeating a     *)
(* segment) with inputs among which are strings equal to segments.         *)

InjectiveChains == {<<users>>, <<users, id>>, <<id, users>>, <<users, users>>}
InjectiveInputs == {Undefined, Input1, Input2, Str(id), Str(users)}

InjectiveSites == [kind : {"query", "infinite"}, chain : InjectiveChains, input : InjectiveInputs]

NextInjective ==
    \E i \in Slots, site \in InjectiveSites : UseQueryHook(i, site)

SpecInjective == InitQuery /\ [][NextInjective]_vars

---------------------------------------------------------------------------
(* Hooks called with options.  An options object is a record of the        *)
(* options given; a function is known by who wrote it.  got holds what the *)
(* last hook call passed to the store's hook.                              *)

EngineFn == "engine"
CallerFn == "caller"
CallerKey == <<Str(<<"m","i","n","e">>)>>

\* { ...a, ...b }: the later entry wins
Spread(a, b) == [f \in DOMAIN a \cup DOMAIN b |-> IF f \in DOMAIN b THEN b[f] ELSE a[f]]

\* const { onSuccess, ...restOptions } = options
RestOptions(options) == [f \in DOMAIN options \ {"onSuccess"} |-> options[f]]

\* mutant of UseQueryArgs: { queryKey, queryFn, ...options }
UseQueryArgsOptionsLast(key, options) ==
    Spread([queryKey |-> key, queryFn |-> EngineFn], options)

\* { ...options, queryKey: [...path, input], queryFn: async () => ... }
UseQueryArgs(key, options) ==
    Spread(options, [queryKey |-> key, queryFn |-> EngineFn])

\* { ...restOptions, mutationFn: async (variables) => ..., onSuccess: (data, variables, context) => ... }
UseMutationArgs(options) ==
    Spread(RestOptions(options), [mutationFn |-> EngineFn, onSuccess |-> EngineFn])

NoOptions == <<>>

QueryOptions ==
    { NoOptions, [enabled |-> TRUE], [queryKey |-> CallerKey], [queryFn |-> CallerFn],
      [queryKey |-> CallerKey, queryFn |-> CallerFn] }

MutationOptions ==
    { NoOptions, [mutationFn |-> CallerFn], [onSuccess |-> CallerFn],
      [mutationFn |-> CallerFn, onSuccess |-> CallerFn] }

HookCalled(property, h, options, args) ==
    [property |-> property, at |-> h.path, result |-> h, options |-> options, args |-> args]

\* api[...chain].useQuery(input, options) / api[...chain].useInfiniteQuery(input, options):
\* the store registers the query under the queryKey it is given
UseQueryWithOptions(i, site, options) ==
    /\ calls[i].kind = "none"
    /\ \A j \in 1..(i - 1) : calls[j].kind # "none"
    /\ LET pr == ProxyChain(client, RootProxy, site.chain)
           hookName == IF site.kind = "query" THEN useQueryName ELSE useInfiniteQueryName
           h == ProxyGet(client, pr.path, hookName)
           args == UseQueryArgs(IF site.kind = "query" THEN QueryKey(h.path, site.input)
                                ELSE InfiniteQueryKey(h.path, site.input), options)
           key == args.queryKey
       IN  /\ pr.k = "proxy"
           /\ h.k = IF site.kind = "query" THEN "useQuery" ELSE "useInfiniteQuery"
           /\ calls' = [calls EXCEPT ![i] =
                  [NoCall EXCEPT !.kind = site.kind, !.path = h.path, !.method = h.method,
                                 !.input = site.input, !.key = key, !.pc = "mounted"]]
           /\ store' = IF key \in DOMAIN store THEN store ELSE (key :> "pending") @@ store
           /\ got' = HookCalled(hookName, h, options, args)
    /\ UNCHANGED <<client, path, context>>

\* api[...chain][property].useMutation(options)
UseMutationWithOptions(i, chain, property, options) ==
    /\ calls[i].kind = "none"
    /\ \A j \in 1..(i - 1) : calls[j].kind # "none"
    /\ LET pr == ProxyChain(client, RootProxy, chain)
           h == ProxyGet(client, pr.path, property)
       IN  /\ pr.k = "proxy"
           /\ h.k = "methodHook"
           /\ IF context
              THEN /\ calls' = [calls EXCEPT ![i] =
                         [NoCall EXCEPT !.kind = "mutation", !.path = h.path,
                                        !.method = h.method,
                                        !.hasOnSuccess = ("onSuccess" \in DOMAIN options),
                                        !.pc = "idle"]]
                   /\ got' = HookCalled(useMutationName, h, options, UseMutationArgs(options))
              ELSE /\ calls' = calls
                   /\ got' = HookThrew(h, ContextMissingError)
    /\ UNCHANGED <<client, store, path, context>>

NextOptions ==
    \/ \E i \in QuerySlots, site \in QuerySites(client), options \in QueryOptions :
          UseQueryWithOptions(i, site, options)
    \/ \E i \in MutationSlots, chain \in Routes(client), property \in MutatingNames,
          options \in MutationOptions : UseMutationWithOptions(i, chain, property, options)
    \/ \E i \in Slots, pageParam \in PageParams : QueryFnRuns(i, pageParam)
    \/ \E i \in Slots : Mutate(i, Input1)
    \/ \E i \in Slots, res \in Responses : TransportResolves(i, res)
    \/ \E i \in Slots : ErrorBodySettles(i)
    \/ \E i \in Slots : BodySettles(i)
    \/ \E i \in Slots : OnSuccess(i)

SpecOptions == InitApp /\ [][NextOptions]_vars

---------------------------------------------------------------------------
(* Properties *)

IsInvalidate(e) == e.ev = "invalidate"
IsOnSuccess(e) == e.ev = "onSuccess"
IsTransport(e) == e.ev = "transport"

\* the keys a call has invalidated, in the order issued
InvKeys(call) ==
    LET inv == SelectSeq(call.trace, IsInvalidate)
    IN  [n \in 1..Len(inv) |-> inv[n].key]

Range(f) == {f[x] : x \in DOMAIN f}

Parent(p) == SubSeq(p, 1, Len(p) - 1)

EndsWithParam(p) == Len(p) > 0 /\ Len(p[Len(p)]) > 0 /\ p[Len(p)][1] = ":"

Succeeded(i) == calls[i].kind = "mutation" /\ calls[i].pc = "success"

NestedPath == <<users, id, posts, postId>>

\* the step in which the store calls the engine's onSuccess for call i
OnSuccessStep(i) ==
    calls[i].kind = "mutation" /\ calls[i].pc = "resolved" /\ calls'[i].pc = "success"

\* s occurs in msg as a contiguous run / as its end
Contains(msg, s) ==
    \E k \in 0..(Len(msg) - Len(s)) : SubSeq(msg, k + 1, k + Len(s)) = s
EndsWith(msg, s) ==
    Len(s) <= Len(msg) /\ SubSeq(msg, Len(msg) - Len(s) + 1, Len(msg)) = s

C2_CollectionMutationOneKey ==
    \A i \in Slots :
        (Succeeded(i) /\ Len(calls[i].path) > 0 /\ ~EndsWithParam(calls[i].path)) =>
            InvKeys(calls[i]) = <<PathKey(calls[i].path)>>

C2_Witness ==
    \E i \in Slots :
        /\ Succeeded(i)
        /\ calls[i].path = <<users>>
        /\ InvKeys(calls[i]) = <<PathKey(<<users>>)>>

\* C3: in the trace of every mutation, whatever the other calls do, each
\* invalidation comes after the resolution of the mutation function and before
\* the caller's onSuccess; a finished successful mutation with a caller
\* onSuccess has run it after its invalidations.
C3_InvalidationBetweenResolveAndCallback ==
    \A i \in Slots :
        calls[i].kind = "mutation" =>
            LET tr == calls[i].trace
            IN  /\ \A n \in 1..Len(tr) :
                      IsInvalidate(tr[n]) =>
                          /\ \E m \in 1..(n - 1) : tr[m].ev = "resolved"
                          /\ \A m \in 1..(n - 1) : ~IsOnSuccess(tr[m])
                /\ (calls[i].pc = "success" /\ calls[i].hasOnSuccess) =>
                      /\ IsOnSuccess(tr[Len(tr)])
                      /\ \E n \in 1..(Len(tr) - 1) : IsInvalidate(tr[n])

C3_Witness ==
    \E i, j \in Slots :
        /\ i # j
        /\ Succeeded(i) /\ calls[i].hasOnSuccess
        /\ IsOnSuccess(calls[i].trace[Len(calls[i].trace)])
        /\ calls[j].kind = "mutation" /\ InFlight(calls[j])

\* C4 as stated: after a successful resource mutation the first invalidation
\* is the full resource Path and the second the parent collection.
C4_ResourceThenCollection ==
    \A i \in Slots :
        (Succeeded(i) /\ EndsWithParam(calls[i].path)) =>
            InvKeys(calls[i]) = <<PathKey(calls[i].path), PathKey(Parent(calls[i].path))>>

\* C4 amended: the first invalidation is the parent collection, the second
\* the full resource Path, and both precede the caller's onSuccess.
C4_CollectionThenResource ==
    \A i \in Slots :
        (Succeeded(i) /\ EndsWithParam(calls[i].path)) =>
            LET tr == calls[i].trace
            IN  /\ InvKeys(calls[i])
                     = <<PathKey(Parent(calls[i].path)), PathKey(calls[i].path)>>
                /\ \A n, m \in 1..Len(tr) :
                      (IsInvalidate(tr[n]) /\ IsOnSuccess(tr[m])) => n < m

C4_Witness ==
    \E i \in Slots :
        /\ Succeeded(i) /\ calls[i].hasOnSuccess
        /\ calls[i].path = <<users, id>>
        /\ InvKeys(calls[i]) = <<PathKey(<<users>>), PathKey(<<users, id>>)>>
        /\ IsOnSuccess(calls[i].trace[Len(calls[i].trace)])

\* C5: a mutation whose dispatch failed, or whose response had ok = false,
\* has issued no invalidation and has not run the caller's onSuccess, and the
\* step in which it fails leaves the store as it was.
C5_FailureTouchesNothing ==
    [][\A i \in Slots :
          calls'[i].kind = "mutation" =>
              /\ (calls'[i].pc = "failure" \/ (calls'[i].res # NoRes /\ ~calls'[i].res.ok)) =>
                    \A n \in 1..Len(calls'[i].trace) :
                        ~IsInvalidate(calls'[i].trace[n]) /\ ~IsOnSuccess(calls'[i].trace[n])
              /\ (calls[i].pc # "failure" /\ calls'[i].pc = "failure") => store' = store
     ]_vars

C5_Witness ==
    \E i, j \in Slots :
        /\ calls[i].kind = "mutation" /\ calls[i].pc = "failure"
        /\ calls[i].error.name = "HonoQueryError" /\ calls[i].hasOnSuccess
        /\ calls[j].kind = "mutation" /\ calls[j].pc = "failure"
        /\ calls[j].error.name \in {"Error", "TypeError"}
        /\ \A k \in DOMAIN store : store[k] = "fresh"

C7_NestedMutationInvalidatesParentResource ==
    \A i \in Slots :
        (Succeeded(i) /\ calls[i].path = NestedPath) =>
            /\ PathKey(<<users, id>>) \in Range(InvKeys(calls[i]))
            /\ store[QueryKey(<<users, id>>, Input1)] = "invalidated"

\* C8: accessing put, post, patch or delete on the proxy at a Path whose
\* handle resolves yields a mutation hook for that method and Path exactly
\* when the handle has the method's callable, and undefined otherwise.
C8_MethodHookIffCallable ==
    (got.property \in MutatingNames /\ got.at \in DOMAIN client) =>
        LET has == (<<"$">> \o got.property) \in client[got.at]
        IN  /\ got.result.k = "methodHook" <=> has
            /\ has => (got.result.path = got.at /\ got.result.method = got.property)
            /\ ~has => got.result.k = "undefined"

C8_Witness ==
    /\ got.property = delete
    /\ got.at = <<users, id>>
    /\ client = ApiFlat
    /\ got.result.k = "undefined"

\* C9 as stated: a query fetch on a Path whose handle resolves and has no
\* $get fails with an error naming the method and the Path, without a
\* transport call.
C9_QueryWithoutGetNamesMethodAndPath ==
    [][\A i \in Slots :
          (/\ calls[i].kind \in {"query", "infinite"}
           /\ calls[i].pc = "mounted" /\ calls'[i].pc # "mounted"
           /\ calls[i].path \in DOMAIN client
           /\ GET \notin client[calls[i].path]) =>
              /\ calls'[i].pc = "failure"
              /\ calls'[i].trace = <<>>
              /\ Contains(calls'[i].error.message, get)
              /\ EndsWith(calls'[i].error.message, Join(calls[i].path, <<".">>))
     ]_vars

\* C10: when mutate runs on a bound hook while the resolved handle lacks the
\* method's callable, the mutation fails with an Error whose message names
\* the method and ends with the joined Path, and the transport is not invoked.
C10_MutateWithoutCallableFailsFast ==
    [][\A i \in Slots :
          (/\ calls[i].kind = "mutation"
           /\ calls[i].pc = "idle" /\ calls'[i].pc # "idle"
           /\ calls[i].path \in DOMAIN client
           /\ (<<"$">> \o calls[i].method) \notin client[calls[i].path]) =>
              /\ calls'[i].pc = "failure"
              /\ calls'[i].error.name = "Error"
              /\ Contains(calls'[i].error.message, calls[i].method)
              /\ EndsWith(calls'[i].error.message, Join(calls[i].path, <<".">>))
              /\ calls'[i].trace = <<>>
     ]_vars

C10_Witness ==
    \E i \in Slots :
        /\ calls[i].kind = "mutation" /\ calls[i].pc = "failure"
        /\ calls[i].path = <<users>> /\ calls[i].method = post
        /\ calls[i].error.name = "Error"
        /\ client = ApiFlatAltered
        /\ calls[i].trace = <<>>

---------------------------------------------------------------------------
\* a call whose last response has settled with its body
Answered(call) ==
    /\ call.res # NoRes
    /\ call.pc \notin {"awaitRes", "awaitJson", "awaitErrJson"}

\* C11: every dispatch (single query, paged query, mutation) whose response has
\* ok = false fails with a HonoQueryError carrying that response; its payload is
\* the parsed body when the body parses and {message: statusText} when it does
\* not, so the parse failure itself is never the error of the call.
C11_ErrorResponseFailsWithPayload ==
    \A i \in Slots :
        LET call == calls[i]
        IN  (Answered(call) /\ ~call.res.ok) =>
                /\ call.pc = "failure"
                /\ call.error.name = "HonoQueryError"
                /\ call.error.response = call.res
                /\ call.error.data = IF call.res.body.parse THEN call.res.body.json
                                     ELSE [message |-> call.res.statusText]

\* a mutation failed on a parseable error body and a paged query on an unparseable one
C11_Witness ==
    \E i, j \in Slots :
        /\ calls[i].kind = "mutation" /\ calls[i].pc = "failure"
        /\ ~calls[i].res.ok /\ calls[i].res.body.parse
        /\ calls[i].error.data = [message |-> "User not found"]
        /\ calls[j].kind = "infinite" /\ calls[j].pc = "failure"
        /\ calls[j].res.status = 500 /\ ~calls[j].res.body.parse
        /\ calls[j].error.data = [message |-> "Internal Server Error"]

\* C12: when a response has ok = true and its body does not parse, the dispatch
\* does not fail: it yields the minimal payload {message: statusText}, and no
\* body-parse error reaches the store or the caller.
C12_UnparseableSuccessBodyFallsBack ==
    \A i \in Slots :
        LET call == calls[i]
        IN  (Answered(call) /\ call.res.ok /\ ~call.res.body.parse) =>
                /\ call.pc # "failure"
                /\ call.error = NoError
                /\ call.data = [message |-> call.res.statusText]

\* the transport invocations a call has made
Invocations(call) == Len(SelectSeq(call.trace, IsTransport))

\* the step starts an execution of the fetch or mutation function of call i
Starts(i) ==
    /\ \/ calls[i].pc \in {"idle", "mounted"}
       \/ calls[i].kind = "infinite" /\ calls[i].pc = "success"
    /\ calls'[i].pc # calls[i].pc

\* resolution reaches a handle and the handle has the callable of the call's method
Passes(i) ==
    LET rpc == Resolve(client, calls[i].path)
    IN  /\ ~InThrows(rpc)
        /\ In(client, HonoMethod(calls[i].method), rpc)

\* C13: each execution of the fetch function or of the mutation function invokes
\* the transport callable exactly once when resolution and the capability check
\* pass and not at all otherwise; no later step of the call, in particular none
\* after a failure, invokes the transport again.
C13_OneInvocationPerExecution ==
    [][\A i \in Slots :
          Invocations(calls'[i]) - Invocations(calls[i])
              = IF Starts(i) /\ Passes(i) THEN 1 ELSE 0]_vars

\* a mutation refused without any invocation, and a paged query that failed on
\* its second page after one invocation per page
C13_Witness ==
    \E i, j \in Slots :
        /\ calls[i].kind = "mutation" /\ calls[i].pc = "failure"
        /\ calls[i].error.name = "Error" /\ Invocations(calls[i]) = 0
        /\ calls[j].kind = "infinite" /\ calls[j].pc = "failure"
        /\ calls[j].error.name = "HonoQueryError"
        /\ Pages(calls[j]) = 1 /\ Invocations(calls[j]) = 2

\* the key is the segments of p, each a string, followed by input as last element
IsPathThenInput(k, p, input) ==
    /\ Len(k) = Len(p) + 1
    /\ \A n \in 1..Len(p) : k[n] = Str(p[n])
    /\ k[Len(k)] = input

\* C14: useQuery at Path p with input i registers the query under the key made of
\* p followed by i as last element (by undefined when no input is given), and two
\* useQuery calls with the same p and equal inputs have the same key.
C14_QueryKeyIsPathThenInput ==
    /\ \A i \in Slots :
          calls[i].kind = "query" =>
              /\ IsPathThenInput(calls[i].key, calls[i].path, calls[i].input)
              /\ calls[i].key \in DOMAIN store
    /\ \A i, j \in Slots :
          ( /\ calls[i].kind = "query" /\ calls[j].kind = "query"
            /\ calls[i].path = calls[j].path /\ calls[i].input = calls[j].input )
          => calls[i].key = calls[j].key

\* useQuery twice at [users] without input: one entry, [users, undefined]
C14_Witness ==
    /\ calls[1].kind = "query" /\ calls[2].kind = "query"
    /\ calls[1].path = <<users>> /\ calls[2].path = <<users>>
    /\ calls[1].input = Undefined /\ calls[2].input = Undefined
    /\ DOMAIN store = { <<Str(users), Undefined>> }

\* C15: useInfiniteQuery at Path p with input i registers under the key p followed
\* by i, the key useQuery gives for the same p and i; no page cursor is part of
\* the key, so every page of the query is fetched and stored under that one key
\* and the store holds no entry but the registered keys.
C15_PagedKeyWithoutCursor ==
    /\ \A i \in Slots :
          calls[i].kind = "infinite" =>
              /\ IsPathThenInput(calls[i].key, calls[i].path, calls[i].input)
              /\ calls[i].key = QueryKey(calls[i].path, calls[i].input)
              /\ \A n \in DOMAIN calls[i].key : calls[i].key[n] \notin Cursors
    /\ DOMAIN store =
          { QueryKey(calls[i].path, calls[i].input) :
              i \in {j \in Slots : calls[j].kind \in {"query", "infinite"}} }

\* a paged query whose second page, fetched with a cursor, has arrived: one entry
C15_Witness ==
    \E i \in Slots :
        /\ calls[i].kind = "infinite" /\ calls[i].pc = "success"
        /\ Pages(calls[i]) = 2 /\ calls[i].pageParam \in Cursors
        /\ DOMAIN store = { calls[i].key }
        /\ store[calls[i].key] = "fresh"

\* the fields of an input, and its query parameters (none when it has no query)
Fields(input) == IF input.t = "object" THEN input.v ELSE <<>>
QueryOf(input) == IF "query" \in DOMAIN Fields(input) THEN Fields(input).query ELSE <<>>

\* the input of the last transport invocation of a call
Sent(call) == call.trace[Len(call.trace)].args[2]

\* C16: each page fetch of a paged query with cursor c passes to the transport
\* the caller's input with its query sub-object extended by page = c: every other
\* query parameter and every other input field is passed unchanged (query
\* {limit: 10} and cursor c give {limit: 10, page: c}), and no step changes the
\* caller's input.
C16_PageMergedIntoQuery ==
    [][\A i \in Slots :
          calls[i].kind = "infinite" =>
              /\ calls'[i].input = calls[i].input
              /\ Invocations(calls'[i]) > Invocations(calls[i]) =>
                    LET input == calls[i].input
                        c == calls'[i].pageParam
                        sent == Sent(calls'[i])
                    IN  /\ sent.t = "object"
                        /\ DOMAIN sent.v = DOMAIN Fields(input) \cup {"query"}
                        /\ \A f \in DOMAIN Fields(input) \ {"query"} :
                              sent.v[f] = Fields(input)[f]
                        /\ DOMAIN sent.v.query = DOMAIN QueryOf(input) \cup {"page"}
                        /\ sent.v.query.page = c
                        /\ \A g \in DOMAIN QueryOf(input) \ {"page"} :
                              sent.v.query[g] = QueryOf(input)[g]
                        /\ QueryOf(input) = [limit |-> Num(10)]
                              => sent.v.query = [limit |-> Num(10), page |-> c]]_vars

\* the second page of a paged query with a param and a query, sent with the cursor
C16_Witness ==
    \E i \in Slots, c \in Cursors :
        /\ calls[i].kind = "infinite" /\ calls[i].pc = "awaitRes"
        /\ calls[i].input = PagedInput1 /\ calls[i].pageParam = c
        /\ Invocations(calls[i]) = 2
        /\ Sent(calls[i]) = Object([param |-> [id |-> "1"],
                                    query |-> [limit |-> Num(10), page |-> c]])

\* the query parameters that carry a value
WithValue(q) == [g \in {h \in DOMAIN q : q[h].t # "undefined"} |-> q[g]]

\* the first page of paged query i has been dispatched and is in flight
FirstPageSent(i) ==
    /\ calls[i].kind = "infinite"
    /\ calls[i].pc = "awaitRes"
    /\ Invocations(calls[i]) = 1

Accessed == got.result.k # "none"

\* the handle at p has the callable of mutating name s
Supported(p, s) ==
    LET rpc == Resolve(client, p)
    IN  /\ s \in MutatingNames
        /\ ~InThrows(rpc)
        /\ In(client, <<"$">> \o s, rpc)

\* the access returned the hook of the name, bound to the Path of the proxy
\* accessed, and the proxy held is still the one at that Path
HookAt(k, m) ==
    /\ got.result = Result(k, got.at, m)
    /\ path = got.at

\* the access returned a new proxy, at the Path accessed extended by the name
ProxyExtended ==
    /\ got.result = Result("proxy", Append(got.at, got.property), <<>>)
    /\ path = Append(got.at, got.property)

\* C18 as claimed: on the query proxy at Path p, accessing useQuery,
\* useInfiniteQuery or a supported post/put/patch/delete returns the hook bound
\* to p and leaves p unextended, and accessing any other name s that does not
\* start with '$' returns a new proxy at p with s appended.
C18_HookOrExtend ==
    Accessed =>
        LET s == got.property
        IN  IF s = useQueryName THEN HookAt("useQuery", get)
            ELSE IF s = useInfiniteQueryName THEN HookAt("useInfiniteQuery", get)
            ELSE IF Supported(got.at, s) THEN HookAt("methodHook", s)
            ELSE ~StartsWith(s, "$") => ProxyExtended

\* C18, amended: as claimed, for the names other than post, put, patch and delete;
\* one of these four that the handle at p does not support extends nothing.
C18_HookOrExtendUnlessMutatingName ==
    Accessed =>
        LET s == got.property
        IN  IF s = useQueryName THEN HookAt("useQuery", get)
            ELSE IF s = useInfiniteQueryName THEN HookAt("useInfiniteQuery", get)
            ELSE IF Supported(got.at, s) THEN HookAt("methodHook", s)
            ELSE IF s \in MutatingNames THEN got.result.k # "proxy" /\ path = got.at
            ELSE ~StartsWith(s, "$") => ProxyExtended

\* patch accessed at [users, :id], reached by two extending accesses: the hook
C18_Witness ==
    /\ got.property = patch
    /\ got.at = <<users, id>>
    /\ got.result = Result("methodHook", <<users, id>>, patch)
    /\ path = <<users, id>>

\* C19: on the query proxy at any Path, accessing a name that begins with '$'
\* returns undefined: not a proxy, not a hook, not the transport's callable; the
\* Path is not extended.
C19_SigilNamesUndefined ==
    (Accessed /\ StartsWith(got.property, "$")) =>
        /\ got.result.k = "undefined"
        /\ path = got.at

\* $post accessed at [users], where the handle has a $post callable
C19_Witness ==
    /\ got.property = POST
    /\ got.at = <<users>>
    /\ In(client, POST, Resolve(client, <<users>>))
    /\ got.result.k = "undefined"

ControlNames == {useQueryName, useInfiniteQueryName} \cup MutatingNames

\* C20: in every state of a traversal that started from the empty Path, the Path
\* of the proxy held, and the Path of whatever the last access returned, contain
\* none of useQuery, useInfiniteQuery, post, put, patch, delete: these names are
\* never appended, whether or not the endpoint supports the method.
C20_NoControlNameInPath ==
    /\ \A n \in 1..Len(path) : path[n] \notin ControlNames
    /\ \A n \in 1..Len(got.result.path) : got.result.path[n] \notin ControlNames

\* delete accessed at [users], which has no $delete: intercepted, nothing appended
C20_Witness ==
    /\ got.property = delete
    /\ got.at = <<users>>
    /\ ~Supported(<<users>>, delete)
    /\ got.result.k = "undefined"
    /\ path = <<users>>

\* C21: no property access on the query proxy throws, access to post, put, patch
\* or delete at a Path that does not exist on the transport object included.
C21_NoAccessThrows ==
    Accessed => got.result.k # "throw"

\* some segment of the Path of call i is absent on the transport object
Unresolvable(i) == InThrows(Resolve(client, calls[i].path))

\* C22: when some segment of the Path is absent on the transport object, a
\* dispatched query or mutation fails for that call with the error of the
\* resolution, without any transport invocation, and the engine takes no further
\* step for the failed call.
C22_UnresolvablePathFailsBeforeTransport ==
    [][\A i \in Slots :
          /\ (Starts(i) /\ Unresolvable(i)) =>
                /\ calls'[i].pc = "failure"
                /\ calls'[i].error = TypeError
                /\ Invocations(calls'[i]) = Invocations(calls[i])
          /\ (calls[i].pc = "failure" /\ calls[i].error = TypeError) =>
                calls'[i] = calls[i]]_vars

\* a mutation and a query, each failed on a Path the transport no longer has
C22_Witness ==
    \E i, j \in Slots :
        /\ calls[i].kind = "mutation" /\ calls[j].kind = "query"
        /\ calls[i].pc = "failure" /\ calls[j].pc = "failure"
        /\ calls[i].error = TypeError /\ calls[j].error = TypeError
        /\ Invocations(calls[i]) = 0 /\ Invocations(calls[j]) = 0
        /\ Unresolvable(i) /\ Unresolvable(j)

\* the last transport invocation of a call
LastInvocation(call) ==
    LET t == SelectSeq(call.trace, IsTransport)
    IN  t[Len(t)]

\* C23: every execution of a fetch function or of a mutation function resolves
\* the endpoint handle from the base client at that moment: an execution invokes
\* the transport if and only if the handle the Path resolves to now has the
\* callable, and the callable invoked is that of this handle, whatever the Path
\* resolved to when the hook was set up or at an earlier fetch.
C23_HandleResolvedAtEachExecution ==
    [][\A i \in Slots :
          LET invoked == Invocations(calls'[i]) > Invocations(calls[i])
          IN  /\ Starts(i) => (invoked <=> Passes(i))
              /\ invoked =>
                    LET e == LastInvocation(calls'[i])
                    IN  /\ e.on = Handle(client, Resolve(client, calls[i].path))
                        /\ e.args[1] = Str(HonoMethod(calls[i].method))
                        /\ e.args[1].v \in e.on.callables]_vars

\* a paged query fetched its first page from a handle with $get and failed to
\* start its second after the transport object had changed
C23_Witness ==
    \E i \in Slots :
        /\ calls[i].kind = "infinite" /\ calls[i].pc = "failure"
        /\ Pages(calls[i]) = 1 /\ Invocations(calls[i]) = 1
        /\ GET \in LastInvocation(calls[i]).on.callables
        /\ calls[i].error \in {TypeError, NotAFunctionError}
        /\ ~Passes(i)

\* C24: for every Path p reached by chained access on the utils proxy, calling
\* the invalidate() obtained at p issues exactly one invalidation to the store,
\* with key p, which marks the entries whose key has prefix p and no others,
\* and makes no transport call.
C24_UtilsInvalidateIssuesKeyOfPath ==
    [][Len(got'.issued) > Len(got.issued) =>
          /\ got.property = invalidate /\ got.at = path
          /\ got'.issued = <<InvalidateEvent(path)>>
          /\ got'.issued[1].key = [n \in 1..Len(path) |-> Str(path[n])]
          /\ store' = InvalidateQueries(store, PathKey(path))
          /\ calls' = calls /\ path' = path /\ client' = client]_vars

\* utils.users[':id'].invalidate() has been called: the two entries under
\* [users, :id] are invalidated, the others are not
C24_Witness ==
    /\ path = <<users, id>>
    /\ got.property = invalidate
    /\ got.issued = <<InvalidateEvent(<<users, id>>)>>
    /\ store[QueryKey(<<users>>, Undefined)] = "fresh"
    /\ store[QueryKey(<<users, id>>, Input1)] = "invalidated"
    /\ \A i \in Slots : calls[i] = NoCall

\* the calls of the caller's onSuccess a mutation has made
Callbacks(call) == SelectSeq(call.trace, IsOnSuccess)

\* C25: the caller-supplied onSuccess of a mutation is called exactly once per
\* successful mutation, with the (data, variables, context) triple the store
\* passed to the engine; it is not called when none was supplied or when the
\* mutation has not succeeded; a successful mutation has issued its invalidation
\* whether or not an onSuccess was supplied.
C25_CallerOnSuccessOnceWithTriple ==
    \A i \in Slots :
        LET call == calls[i]
        IN  call.kind = "mutation" =>
                /\ Len(Callbacks(call)) =
                        IF call.pc = "success" /\ call.hasOnSuccess THEN 1 ELSE 0
                /\ \A n \in 1..Len(Callbacks(call)) :
                        Callbacks(call)[n].args = <<Object(call.data), call.input, Context>>
                /\ call.pc = "success" => Len(InvKeys(call)) >= 1

\* two mutations have succeeded, one with an onSuccess and one without
C25_Witness ==
    \E i, j \in Slots :
        /\ Succeeded(i) /\ Succeeded(j)
        /\ calls[i].hasOnSuccess /\ ~calls[j].hasOnSuccess
        /\ Len(Callbacks(calls[i])) = 1 /\ Len(Callbacks(calls[j])) = 0
        /\ Callbacks(calls[i])[1].args = <<Object([id |-> "1"]), Input1, Context>>
        /\ Len(InvKeys(calls[j])) >= 1

\* the invalidations and caller callbacks a call has made
Effects(call) == SelectSeq(call.trace, LAMBDA e : e.ev \in {"invalidate", "onSuccess"})

\* C26: with mutations dispatched concurrently, in every interleaving, the
\* invalidation call(s) and the caller's onSuccess of a mutation whose dispatch
\* succeeded all happen in one step: before it the mutation has made none of
\* them, after it all of them, the store has taken every invalidation, and no
\* other call has moved in that step.
C26_OnSuccessIsOneStep ==
    [][\A i \in Slots :
          Len(Effects(calls'[i])) > Len(Effects(calls[i])) =>
              /\ calls[i].pc = "resolved" /\ Effects(calls[i]) = <<>>
              /\ calls'[i].pc = "success"
              /\ Len(InvKeys(calls'[i])) = IF EndsWithParam(calls[i].path) THEN 2 ELSE 1
              /\ Len(Callbacks(calls'[i])) = IF calls[i].hasOnSuccess THEN 1 ELSE 0
              /\ store' = ApplyEffects(store, Effects(calls'[i]))
              /\ \A j \in Slots \ {i} : calls'[j] = calls[j]]_vars

\* one mutation has run its onSuccess while the other, whose dispatch has
\* succeeded too, has not yet
C26_Witness ==
    \E i, j \in Slots :
        /\ calls[i].kind = "mutation" /\ calls[i].pc = "success"
        /\ Len(InvKeys(calls[i])) = 2
        /\ calls[j].kind = "mutation" /\ calls[j].pc = "resolved"
        /\ calls[j].path = calls[i].path
        /\ Effects(calls[j]) = <<>>

Pending(call) == call.pc \in {"awaitRes", "awaitJson", "awaitErrJson", "resolved"}
Settled(call) == call.pc \in {"success", "failure"}

\* C27: every dispatched call starts pending (or fails before its first
\* suspension), and leaves pending exactly once, for success or for failure;
\* once settled, nothing of the call changes again.  A further dispatch, the
\* next page of a paged query or the dispatch of another call, adds a result of
\* its own: it keeps what the earlier dispatch recorded and leaves every other
\* call as it is.
C27_OneTransitionThenImmutable ==
    [][\A i \in Slots :
          /\ Starts(i) =>
                /\ Pending(calls'[i]) \/ calls'[i].pc = "failure"
                /\ SubSeq(calls'[i].trace, 1, Len(calls[i].trace)) = calls[i].trace
          /\ Pending(calls[i]) => (Pending(calls'[i]) \/ Settled(calls'[i]))
          /\ (Settled(calls[i]) /\ ~Starts(i)) => calls'[i] = calls[i]
          /\ calls'[i] # calls[i] => \A j \in Slots \ {i} : calls'[j] = calls[j]]_vars

\* a query settled in success and a mutation settled in failure
C27_Witness ==
    \E i, j \in Slots :
        /\ calls[i].kind = "query" /\ calls[i].pc = "success"
        /\ calls[i].data = [id |-> "1"]
        /\ calls[j].kind = "mutation" /\ calls[j].pc = "failure"
        /\ calls[j].error.name = "HonoQueryError"

\* the payload of an error response: its body, or the fallback when the body
\* is not JSON
Payload(res) == IF res.body.parse THEN res.body.json ELSE [message |-> res.statusText]

HasMessage(data) == "message" \in DOMAIN data /\ data.message # ""

\* C28: a call that failed on a response that is not ok failed with a
\* HonoQueryError whose response is that response, whose data is the payload,
\* and whose message is the payload's message when the payload has one that is
\* not empty, the response's status text otherwise.
C28_ErrorCarriesResponsePayloadMessage ==
    \A i \in Slots :
        (calls[i].pc = "failure" /\ calls[i].res # NoRes /\ ~calls[i].res.ok) =>
            /\ calls[i].error.name = "HonoQueryError"
            /\ calls[i].error.response = calls[i].res
            /\ calls[i].error.response.status = calls[i].res.status
            /\ calls[i].error.data = Payload(calls[i].res)
            /\ calls[i].error.message =
                  IF HasMessage(Payload(calls[i].res))
                  THEN <<Payload(calls[i].res).message>>
                  ELSE <<calls[i].res.statusText>>

\* a mutation failed on 400 Bad Request whose payload has an empty message,
\* and a query on 404 whose payload has a message
C28_Witness ==
    \E i, j \in Slots :
        /\ calls[i].kind = "mutation" /\ calls[i].pc = "failure"
        /\ calls[i].res.status = 400 /\ calls[i].error.data = [message |-> ""]
        /\ calls[i].error.message = <<"Bad Request">>
        /\ calls[j].kind = "query" /\ calls[j].pc = "failure"
        /\ calls[j].res.status = 404 /\ calls[j].error.message = <<"User not found">>

\* C29: while there is no provider around the component, no mutation is
\* registered, and invoking a mutation hook throws the context-missing error
\* and does nothing else: no mutation registered, no transport call, no
\* invalidation, the store as it was.
C29_UseMutationOutsideProviderThrows ==
    [][~context =>
          /\ \A i \in Slots : calls[i] = NoCall
          /\ ~context' =>
                /\ got'.result.k = "throw"
                /\ got'.error = ContextMissingError
                /\ calls' = calls
                /\ store' = store]_vars

\* api.users.post.useMutation() has thrown outside the provider
C29_Witness ==
    /\ ~context
    /\ got.result.k = "throw"
    /\ got.property = useMutationName /\ got.at = <<users>> /\ got.result.method = post
    /\ \A i \in Slots : calls[i] = NoCall

HasInput(call) == call.kind \in {"query", "infinite"} \/ (call.kind = "mutation" /\ call.pc # "idle")

\* C31: no step of the engine changes the Path, the method or the key of a
\* registered call, nor the input its caller gave it; a step that changes a call
\* or the store leaves the base client as it is (the client changes only when
\* the transport itself is altered, a step that touches no call and no store
\* entry); and besides the calls it runs, the store is all an engine step writes.
C31_EngineWritesOnlyTheStore ==
    [][/\ \A i \in Slots :
             /\ calls[i].kind # "none" =>
                   /\ calls'[i].path = calls[i].path
                   /\ calls'[i].method = calls[i].method
                   /\ calls'[i].key = calls[i].key
             /\ HasInput(calls[i]) => calls'[i].input = calls[i].input
       /\ (calls' # calls \/ store' # store) => client' = client
       /\ path' = path /\ got' = got /\ context' = context]_vars

\* a paged query whose first page was sent with the page merged in, the
\* caller's input still without it, next to a mutation that succeeded
C31_Witness ==
    \E i, j \in Slots :
        /\ calls[i].kind = "infinite" /\ calls[i].pc = "success"
        /\ calls[i].input = PagedInput
        /\ \E n \in 1..Len(calls[i].trace) :
              /\ calls[i].trace[n].ev = "transport"
              /\ calls[i].trace[n].args[2] = FinalInput(PagedInput, Undefined)
        /\ calls[j].kind = "mutation" /\ calls[j].pc = "success"
        /\ calls[j].input = Input1

\* key k was registered by a hook at Path p: p followed by one input
RegisteredAt(k, p) == Len(k) = Len(p) + 1 /\ SubSeq(k, 1, Len(p)) = PathKey(p)

\* C32: once a mutation at Path p has succeeded, every entry registered at p,
\* whatever its input, is invalidated, and when p ends in a parameter token so
\* is every entry registered at the parent collection path.
C32_EntriesAtPathInvalidated ==
    \A i \in Slots :
        Succeeded(i) =>
            \A k \in DOMAIN store :
                (\/ RegisteredAt(k, calls[i].path)
                 \/ EndsWithParam(calls[i].path) /\ RegisteredAt(k, Parent(calls[i].path)))
                    => store[k] = "invalidated"

\* PATCH at users/:id has succeeded: the entries of both ids at users/:id and
\* the list and paged entries at users are invalidated
C32_Witness ==
    /\ client = ApiFlat
    /\ \E i \in Slots : Succeeded(i) /\ calls[i].path = <<users, id>>
    /\ store[QueryKey(<<users, id>>, Input1)] = "invalidated"
    /\ store[QueryKey(<<users, id>>, Input2)] = "invalidated"
    /\ store[QueryKey(<<users>>, Undefined)] = "invalidated"
    /\ store[InfiniteQueryKey(<<users>>, PagedInput)] = "invalidated"

\* C33: once a mutation at a Path ending in a parameter token has succeeded
\* with variables naming one id, the entries registered at that Path for any
\* other input, another id among them, are invalidated as well.
C33_ResourceMutationInvalidatesEveryId ==
    \A i \in Slots :
        (Succeeded(i) /\ EndsWithParam(calls[i].path)) =>
            \A k \in DOMAIN store :
                (RegisteredAt(k, calls[i].path) /\ k[Len(k)] # calls[i].input)
                    => store[k] = "invalidated"

\* PUT at users/:id of the nested API has succeeded for id 1 and the entry of
\* id 2 is invalidated
C33_Witness ==
    /\ client = ApiNested
    /\ \E i \in Slots :
          /\ Succeeded(i) /\ calls[i].path = <<users, id>> /\ calls[i].method = put
          /\ calls[i].input = Input1
    /\ store[QueryKey(<<users, id>>, Input2)] = "invalidated"

\* the entries a step has invalidated
Invalidated(before, after) ==
    {k \in DOMAIN before : before[k] # "invalidated" /\ after[k] = "invalidated"}

\* C34: the step in which a resource mutation issues its two invalidations
\* invalidates exactly the entries the parent-collection key alone invalidates,
\* and leaves the store as that one invalidation would.
C34_ResourceKeyAddsNothing ==
    [][\A i \in Slots :
          (Len(InvKeys(calls'[i])) > Len(InvKeys(calls[i])) /\ EndsWithParam(calls[i].path)) =>
              LET collection == InvalidateQueries(store, PathKey(Parent(calls[i].path)))
              IN  /\ InvKeys(calls'[i]) = <<PathKey(Parent(calls[i].path)), PathKey(calls[i].path)>>
                  /\ Invalidated(store, store') = Invalidated(store, collection)
                  /\ store' = collection]_vars

\* DELETE at users/:id/posts/:postId has succeeded: the entries under
\* users/:id/posts are invalidated, those at users/:id and users are not
C34_Witness ==
    /\ \E i \in Slots : Succeeded(i) /\ calls[i].path = NestedPath
    /\ store[QueryKey(NestedPath, Input1)] = "invalidated"
    /\ store[QueryKey(<<users, id, posts>>, Undefined)] = "invalidated"
    /\ store[QueryKey(<<users, id>>, Input1)] = "fresh"
    /\ store[QueryKey(<<users>>, Undefined)] = "fresh"

\* the Path is empty or one parameter token
RootLevel(p) == p = <<>> \/ (Len(p) = 1 /\ EndsWithParam(p))

\* C35: a mutation at the empty Path, or at a Path of one parameter token, that
\* has succeeded has issued an invalidation with the empty key, and every entry
\* of the store is invalidated.
C35_EmptyKeyInvalidatesEverything ==
    \A i \in Slots :
        (Succeeded(i) /\ RootLevel(calls[i].path)) =>
            /\ <<>> \in Range(InvKeys(calls[i]))
            /\ \A k \in DOMAIN store : store[k] = "invalidated"

\* PATCH at :id has succeeded and the entries at users are invalidated with
\* all the others
C35_Witness ==
    /\ client = ApiParam
    /\ \E i \in Slots : Succeeded(i) /\ calls[i].path = <<id>> /\ calls[i].method = patch
    /\ \A i \in Slots : calls[i].kind = "mutation" => calls[i].path = <<id>>
    /\ store[QueryKey(<<users>>, Input2)] = "invalidated"
    /\ store[InfiniteQueryKey(<<users>>, PagedInput)] = "invalidated"

Registered(call) == call.kind \in {"query", "infinite"}

\* C36: two registered query calls have equal keys only if their Paths are
\* equal and their inputs are equal; calls at Paths with the same segments in
\* another order, or at a Path and one of its extensions, have different keys
\* whatever their inputs.
C36_KeyInjective ==
    \A i, j \in Slots :
        (Registered(calls[i]) /\ Registered(calls[j])) =>
            /\ calls[i].key = calls[j].key =>
                  (calls[i].path = calls[j].path /\ calls[i].input = calls[j].input)
            /\ calls[i].path # calls[j].path => calls[i].key # calls[j].key

\* useQuery at users with the input ":id" next to useInfiniteQuery at
\* users/:id with no input: the segments and the string are the same, the
\* keys differ
C36_Witness ==
    \E i, j \in Slots :
        /\ calls[i].kind = "query" /\ calls[i].path = <<users>> /\ calls[i].input = Str(id)
        /\ calls[j].kind = "infinite" /\ calls[j].path = <<users, id>>
        /\ calls[j].input = Undefined
        /\ calls[i].key # calls[j].key
        /\ {calls[i].key, calls[j].key} \subseteq DOMAIN store

HookNames == {useQueryName, useInfiniteQueryName, useMutationName}

\* C37: whatever the options of a hook call name, the store's hook is given
\* the engine's key and fetch function, or the engine's mutation function and
\* onSuccess; every query is registered under the key made of its Path and
\* input; and a mutation that succeeded has issued its invalidations, followed
\* by the caller's onSuccess when the options had one.
C37_OptionsNeverReplaceEngine ==
    /\ (got.property \in {useQueryName, useInfiniteQueryName}) =>
          /\ got.args.queryFn = EngineFn
          /\ \E input \in {calls[i].input : i \in Slots} :
                got.args.queryKey = QueryKey(got.at, input)
    /\ (got.property = useMutationName) =>
          /\ got.args.mutationFn = EngineFn
          /\ got.args.onSuccess = EngineFn
    /\ \A i \in Slots :
          /\ Registered(calls[i]) =>
                /\ calls[i].key = QueryKey(calls[i].path, calls[i].input)
                /\ calls[i].key \in DOMAIN store
                /\ CallerKey \notin DOMAIN store
          /\ Succeeded(i) =>
                /\ Len(InvKeys(calls[i])) >= 1
                /\ calls[i].trace[Len(calls[i].trace)].ev =
                      IF calls[i].hasOnSuccess THEN "onSuccess" ELSE "invalidate"

\* useMutation was called with a mutationFn and an onSuccess of the caller's
\* and the mutation has succeeded through the engine's, next to a query that
\* was fetched
C37_Witness ==
    /\ got.property = useMutationName
    /\ got.options = [mutationFn |-> CallerFn, onSuccess |-> CallerFn]
    /\ \E i, j \in Slots :
          /\ Succeeded(i) /\ calls[i].hasOnSuccess
          /\ Len(InvKeys(calls[i])) = 2
          /\ Registered(calls[j]) /\ calls[j].pc = "success"

\* a Path with a hook trigger name or a '$'-prefixed name among its segments
HasControlName(p) ==
    \E n \in 1..Len(p) : p[n] \in ControlNames \/ StartsWith(p[n], "$")

\* C38: on the utils proxy every name accessed, other than invalidate, gives a
\* utils proxy at the Path extended by that name, hook trigger names and
\* '$'-prefixed names included; and invalidate() called at a Path holding such
\* a name has issued the key of that Path, a Path at which traversal of the
\* query proxy never arrives, whatever the client.
C38_UtilsPathUnfiltered ==
    /\ (got.property \notin {<<>>, invalidate}) =>
          /\ got.result = Result("proxy", Append(got.at, got.property), <<>>)
          /\ path = got.result.path
    /\ (got.issued # <<>> /\ HasControlName(path)) =>
          /\ got.issued = <<InvalidateEvent(path)>>
          /\ \A c \in AllClients \cup {ApiParam} :
                ProxyChain(c, RootProxy, path) # Result("proxy", path, <<>>)

\* utils.users.post.$get.invalidate() has been called
C38_Witness ==
    /\ path = <<users, post, GET>>
    /\ got.property = invalidate
    /\ got.issued = <<InvalidateEvent(<<users, post, GET>>)>>

\* C39: under fairness of the transport's answers, of body parsing and of the
\* store's run of onSuccess, every call that is pending eventually is settled,
\* in success or in failure, and every mutation whose mutation function has
\* resolved eventually has issued its invalidation and, when its caller gave an
\* onSuccess, run it.
C39_CallsSettleAndInvalidate ==
    \A i \in Slots :
        /\ Pending(calls[i]) ~> Settled(calls[i])
        /\ (calls[i].pc = "resolved") ~>
              (/\ calls[i].pc = "success"
               /\ Len(InvKeys(calls[i])) >= 1
               /\ calls[i].hasOnSuccess => Len(Callbacks(calls[i])) = 1)

\* a mutation has gone through to success with its invalidation and its
\* caller's onSuccess, and a query has settled in failure on a network error
C39_Witness ==
    \E i, j \in Slots :
        /\ Succeeded(i) /\ Len(InvKeys(calls[i])) >= 1 /\ Len(Callbacks(calls[i])) = 1
        /\ Registered(calls[j]) /\ calls[j].pc = "failure" /\ calls[j].error = NetworkError

====
